---- MODULE Spec2Model ----
(***************************************************************************)
(* A model of b3_2d: the per-section meshing fan-out (core/mesh.py), the   *)
(* ANBA4 solver drivers (state/b3_2d_anba.py, cli/commands/anba_all.py),   *)
(* the bill-of-materials summation (core/bom.py), the mesh and post steps  *)
(* (state/b3_2d_mesh.py, state/b3_2d_post.py), the geometry helpers of     *)
(* core/mesh.py and the CLI application (cli/cli.py).                      *)
(*                                                                         *)
(* External collaborators (pyvista, cgfoil, the file system, conda and the *)
(* solver) are modelled by their outcomes: a call either raises or has the *)
(* effect its caller relies on, chosen nondeterministically.               *)
(***************************************************************************)
EXTENDS Integers, Sequences, FiniteSets, TLC

\* ------------------------------------------------------------------ bounds
MaxSectionId == 3       \* section ids of the input mesh are 1..MaxSectionId
MaxCells == 2           \* cells of the input mesh
MaxProcs == 2           \* worker processes of a pool
MaxAnbaSections == 2    \* section directories the ANBA drivers are run on
MaxBomCells == 2        \* cells of the mesh given to compute_bom
MaxMatdb == 2           \* entries of the matdb given to compute_bom
MaxStepSections == 2    \* sections the mesh step gets results for
MaxStepCells == 1       \* cells of an output.vtk the mesh step reads back
MaxExtractCells == 4    \* cells of a section given to the extraction
MaxSortPoints == 3      \* points of a mesh given to sort_points_by_y
MaxSortCells == 1       \* triangles of that mesh
MaxValidPoints == 2     \* elements of a list given to validate_points
MaxPostSections == 2    \* section directories the post step finds
MaxArgs == 2            \* words of a command line
MaxPlotSections == 3    \* section directories plot_bom_spanwise finds
MaxFields == 4          \* data fields of an airfoil mesh
MaxLogSections == 2     \* sections one process is given
MaxLogCalls == 3        \* calls of process_single_section in one process

\* Point counts an extraction can yield, on both sides of the threshold.
MinPoints == 10
PointCounts == {0, MinPoints - 1, MinPoints, MinPoints + 2}
\* Numbers of ply-thickness fields found on the airfoil.
PlyCounts == {0, 1, 2}

SectionIds == 1..MaxSectionId
NoSection == MaxSectionId + 1   \* a value that is no section id

VARIABLES
    \* --- process_vtp_multi_section / process_single_section
    vtp,            \* the input mesh: [has_section_id, section_id (per cell)]
    num_processes,  \* size of the multiprocessing.Pool
    mainPc,         \* position of process_vtp_multi_section
    pool_created,   \* multiprocessing.Pool(...) has been entered
    unique_ids,     \* sorted(set(cell_data["section_id"]))
    taskQueue,      \* starmap's tasks not yet taken by a worker, in order
    worker,         \* worker process -> section it is processing, or NoSection
    job,            \* section id -> state of its process_single_section call
    mapValue,       \* starmap's result slots, by task index
    firstDone,      \* the section whose call ended first, or NoSection
    results,        \* the list process_vtp_multi_section returns
    summary,        \* successful_count and failed_count of lines 356-357
    \* --- the file system below output_base_dir (the step's b3_2d/)
    dirs,           \* section directories on disk
    files,          \* files in section directories, as paths
    \* --- B32dAnbaStep
    anbaEnv,        \* what the step finds: conda, and what `conda env list` gives
    max_workers,    \* worker processes of the ProcessPoolExecutor
    anbaPc,         \* position of B32dAnbaStep._execute
    anba_files,     \* the list globbed at line 72, as section ids
    calls,          \* the subprocess.run invocations made so far, in order
    future,         \* section id -> state of its submitted run_anba_for_file
    run,            \* section id -> the CompletedProcess of its solver run
    logs,           \* section id -> what was written to its anba_solve.log
    anba4_results,  \* anba4_results/: file name -> section the file came from
    stepLog,        \* the messages the driver logged, as <<level, message, ...>>
    \* --- the CLI command `anba all`
    cliPc,          \* position of anba_all_command
    \* --- compute_bom
    bomMesh,        \* the mesh argument: its cell_data fields and arrays
    bomMatdb,       \* the matdb argument: the items of the dict, in order
    bomPc,          \* "input" before the call, "done" after it
    bomResult,      \* what compute_bom returned
    \* --- B32dStep (state/b3_2d_mesh.py)
    stepPc,         \* position of B32dStep._execute
    stepMatdb,      \* self.config.get("matdb", {}): the items of the dict
    stepResults,    \* what process_vtp_multi_section returned to the step
    stepIdx,        \* results the loop of lines 50-61 has been through
    stepMesh,       \* the mesh last read from an output.vtk (line 54)
    stepBom,        \* what the step's compute_bom last returned (line 55)
    bomJson,        \* section id -> what was dumped to its bom.json
    \* --- extract_airfoil_and_web_points
    exSection,      \* the section_mesh argument
    exPc,           \* "input" before the call, "returned" or "raised" after
    exOut,          \* (points_2d, web_data, airfoil) as returned
    \* --- sort_points_by_y
    sortMesh,       \* the mesh argument
    sortPc,         \* "input" before the call, "done" after it
    sortOut,        \* the mesh returned
    \* --- validate_points
    valArg,         \* the points_2d argument, any Python value
    valPc,          \* "input" before the call, "done" after it
    valOut,         \* the value returned
    \* --- B32dPostStep
    postBom,        \* section id -> what its bom.json holds
    postAnba,       \* section id -> what its anba_out.json holds
    postFiles,      \* the plot files in b3_2d/
    postLog,        \* the messages the step logged
    postPc,         \* position of B32dPostStep._execute
    \* --- the CLI application
    argv,           \* the words of the command line after the program name
    app,            \* the application object of cli/cli.py
    appPc,          \* "import", then "main", then "done"
    appTarget,      \* the callback app.run() reached, or how it ended
    \* --- the logging state of one process that runs process_single_section
    logCfg,         \* root level, module logger level and propagate, handlers
    logBefore,      \* logCfg as it was when the current call was entered
    logCall,        \* the current call: [pc, section, original_level]
    logLines,       \* section -> the sections whose messages its 2dmesh.log holds
    logCalls,       \* calls made so far
    \* --- get_thickness_and_material_arrays / define_skins_and_webs
    skinMesh,       \* the fields of the airfoil mesh, in the order of its keys
    skinPc,         \* "start", then "done"
    skinOut,        \* the skins built, or the exception raised
    \* --- plot_bom_spanwise on the directories the mesh step wrote
    plotIdType,     \* the type of the section_id array: "int" or "float"
    plotFiles,      \* glob section_*/bom.json: [id, kind] in listing order
    plotPc,         \* "start", then "done"
    plotOut         \* [raised, written, z_vals]

meshVars == <<vtp, num_processes, mainPc, pool_created, unique_ids, taskQueue,
              worker, job, mapValue, firstDone, results, summary>>
fsVars == <<dirs, files>>
anbaVars == <<anbaEnv, max_workers, anbaPc, anba_files, calls, future, run,
              logs, anba4_results, stepLog>>

cliVars == <<cliPc>>
bomVars == <<bomMesh, bomMatdb, bomPc, bomResult>>

stepVars == <<stepPc, stepMatdb, stepResults, stepIdx, stepMesh, stepBom, bomJson>>

extractVars == <<exSection, exPc, exOut>>

sortVars == <<sortMesh, sortPc, sortOut>>

validVars == <<valArg, valPc, valOut>>

postVars == <<postBom, postAnba, postFiles, postLog, postPc>>

appVars == <<argv, app, appPc, appTarget>>

logVars == <<logCfg, logBefore, logCall, logLines, logCalls>>

skinVars == <<skinMesh, skinPc, skinOut>>

plotVars == <<plotIdType, plotFiles, plotPc, plotOut>>

\* The variables of the parts modelled last.
restVars == <<logVars, skinVars, plotVars>>

\* The variables of the parts modelled further down in the module.
moreVars == <<stepVars, extractVars, sortVars, validVars, postVars, appVars,
              restVars>>

\* The variables of the meshing fan-out, the ANBA drivers and compute_bom,
\* and of the parts modelled last.
baseVars == <<meshVars, fsVars, anbaVars, cliVars, bomVars, restVars>>

vars == <<meshVars, fsVars, anbaVars, cliVars, bomVars, moreVars>>

\* ----------------------------------------------------------------- helpers
SeqsUpTo(S, n) == UNION {[1..k -> S] : k \in 0..n}

Range(f) == {f[i] : i \in DOMAIN f}

RECURSIVE sorted(_)
\* Python's sorted() on a set of distinct numbers: ascending.
sorted(S) ==
    IF S = {} THEN <<>>
    ELSE LET m == CHOOSE x \in S : \A y \in S : x <= y
         IN <<m>> \o sorted(S \ {m})

IndexOf(seq, x) == CHOOSE i \in DOMAIN seq : seq[i] = x

\* os.path.join(output_base_dir, f"section_{section_id}")
SectionDir(s) == <<"section_", s>>
\* Faulty variant: every job writes into the directory of section 1.
FilePath_Shared(s, name) == <<"section_", 1, name>>

\* os.path.join(section_dir, name)
FilePath(s, name) == <<"section_", s, name>>

NoResult == [none |-> TRUE]

\* The result dict of lines 226-233.
NewResult(s) ==
    [section_id |-> s,
     success |-> TRUE,
     input_file |-> "vtp_file",
     output_dir |-> SectionDir(s),
     created_files |-> <<>>,
     errors |-> <<>>]

\* A job: where it stands, its result dictionary, what the call holds in its
\* local variables while it runs (whether points_2d has at least MinPoints
\* valid points, whether airfoil_thicknesses has a field), and what has
\* happened in it (whether generate_mesh was called, and whether it was
\* called without both).
IdleJob ==
    [pc |-> "idle", result |-> NoResult, enough_points |-> FALSE,
     thickness_found |-> FALSE, generate_mesh_called |-> FALSE,
     called_unqualified |-> FALSE]

\* ------------------------------------------------------------------- Init
MeshIdle ==
    /\ vtp = [has_section_id |-> FALSE, section_id |-> <<>>]
    /\ num_processes = 1
    /\ mainPc = "off"
    /\ pool_created = FALSE
    /\ unique_ids = <<>>
    /\ taskQueue = <<>>
    /\ worker = [w \in 1..MaxProcs |-> NoSection]
    /\ job = [s \in SectionIds |-> IdleJob]
    /\ mapValue = <<>>
    /\ firstDone = NoSection
    /\ results = <<>>
    /\ summary = [successful_count |-> 0, failed_count |-> 0]

AnbaSections == 1..MaxAnbaSections

NoFuture == [state |-> "none", success |-> FALSE]
NoRun == [returncode |-> 0, stdout |-> <<>>, stderr |-> <<>>]

AnbaIdle ==
    /\ anbaEnv = [conda_found |-> FALSE, env_returncode |-> 0, env_listed |-> FALSE]
    /\ max_workers = 1
    /\ anbaPc = "off"
    /\ anba_files = <<>>
    /\ calls = <<>>
    /\ future = [s \in AnbaSections |-> NoFuture]
    /\ run = [s \in AnbaSections |-> NoRun]
    /\ logs = [s \in AnbaSections |-> <<>>]
    /\ anba4_results = <<>>
    /\ stepLog = {}

CliIdle == cliPc = "off"

NoBom == [none |-> TRUE]

BomIdle ==
    /\ bomMesh = [fields |-> {}, Area |-> <<>>, material_id |-> <<>>]
    /\ bomMatdb = <<>>
    /\ bomPc = "off"
    /\ bomResult = NoBom

StepSections == 1..MaxStepSections

StepIdle ==
    /\ stepPc = "off"
    /\ stepMatdb = <<>>
    /\ stepResults = <<>>
    /\ stepIdx = 0
    /\ stepMesh = [fields |-> {}, Area |-> <<>>, material_id |-> <<>>]
    /\ stepBom = NoBom
    /\ bomJson = [s \in StepSections |-> NoBom]

NoExtract == [points_2d |-> <<>>, web_data |-> <<>>, airfoil |-> <<>>]

ExtractIdle ==
    /\ exSection = [cells |-> <<>>, twist |-> 0, dx |-> 0, dy |-> 0]
    /\ exPc = "off"
    /\ exOut = NoExtract

NoSortMesh == [points |-> <<>>, cells |-> <<>>, w |-> <<>>]

SortIdle ==
    /\ sortMesh = NoSortMesh
    /\ sortPc = "off"
    /\ sortOut = NoSortMesh

ValidIdle ==
    /\ valArg = [type |-> "NoneType", items |-> <<>>]
    /\ valPc = "off"
    /\ valOut = FALSE

PostSections == 1..MaxPostSections

PostIdle ==
    /\ postBom = [s \in PostSections |-> "none"]
    /\ postAnba = [s \in PostSections |-> "none"]
    /\ postFiles = {}
    /\ postLog = {}
    /\ postPc = "off"

NoApp == [name |-> "", commands |-> <<>>, subgroups |-> <<>>]

AppIdle ==
    /\ argv = <<>>
    /\ app = NoApp
    /\ appPc = "off"
    /\ appTarget = "none"

LogSections == 1..MaxLogSections

\* The logging module as Python starts it: the root logger at WARNING, the
\* module logger of core/mesh.py (line 17) at NOTSET and propagating.
DefaultLogging ==
    [root_level |-> "WARNING", logger_level |-> "NOTSET", propagate |-> TRUE,
     handlers |-> {}]

NoLogCall == [pc |-> "off", section |-> 0, original_level |-> "NOTSET"]

LogIdle ==
    /\ logCfg = DefaultLogging
    /\ logBefore = DefaultLogging
    /\ logCall = NoLogCall
    /\ logLines = [s \in LogSections |-> {}]
    /\ logCalls = 0

NoSkins == [raised |-> "none", skins |-> <<>>]

SkinIdle ==
    /\ skinMesh = <<>>
    /\ skinPc = "off"
    /\ skinOut = NoSkins

NoPlot == [raised |-> "none", written |-> {}, z_vals |-> <<>>]

PlotIdle ==
    /\ plotIdType = "int"
    /\ plotFiles = <<>>
    /\ plotPc = "off"
    /\ plotOut = NoPlot

RestIdle == LogIdle /\ SkinIdle /\ PlotIdle

MoreIdle ==
    /\ StepIdle /\ ExtractIdle /\ SortIdle /\ ValidIdle /\ PostIdle /\ AppIdle
    /\ RestIdle

MeshInit ==
    /\ AnbaIdle /\ CliIdle /\ BomIdle /\ MoreIdle
    /\ vtp \in [has_section_id : BOOLEAN, section_id : SeqsUpTo(SectionIds, MaxCells)]
    /\ (~vtp.has_section_id => vtp.section_id = <<>>)
    /\ num_processes \in 1..MaxProcs
    /\ mainPc = "start"
    /\ pool_created = FALSE
    /\ unique_ids = <<>>
    /\ taskQueue = <<>>
    /\ worker = [w \in 1..MaxProcs |-> NoSection]
    /\ job = [s \in SectionIds |-> IdleJob]
    /\ mapValue = <<>>
    /\ firstDone = NoSection
    /\ results = <<>>
    /\ summary = [successful_count |-> 0, failed_count |-> 0]
    /\ dirs = {}
    /\ files = {}

\* ------------------------------------------- process_single_section (steps)
\* A list of n 2D points, as airfoil.points[:, :2].tolist() builds it.
Points(n) == [i \in 1..n |-> <<0, 0>>]

\* validate_points on a list of coordinate tuples: every point has 2 components.
validate_points(points_2d) == \A i \in DOMAIN points_2d : Len(points_2d[i]) = 2

\* Faulty variant: the guard does not look at the number of points.
InvalidPoints_NoCount(points_2d) ==
    \/ points_2d = <<>>
    \/ ~validate_points(points_2d)

\* The guard of line 256.
InvalidPoints(points_2d) ==
    \/ points_2d = <<>>
    \/ Len(points_2d) < MinPoints
    \/ ~validate_points(points_2d)

\* Faulty variant: results are kept in the order the workers deliver them.
SetSlot_CompletionOrder(value, i, r) ==
    LET k == CHOOSE n \in DOMAIN value :
                 /\ value[n] = [none |-> TRUE]
                 /\ \A m \in DOMAIN value : m < n => value[m] # [none |-> TRUE]
    IN [value EXCEPT ![k] = r]

\* MapResult._set as starmap uses it: the result of task i goes to slot i.
SetSlot(value, i, r) == [value EXCEPT ![i] = r]

Raised == [raised |-> TRUE]

\* The worker that ran section s hands r to the pool and becomes free.
Deliver(s, r) ==
    /\ mapValue' = SetSlot(mapValue, IndexOf(unique_ids, s), r)
    /\ worker' = [w \in DOMAIN worker |->
                    IF worker[w] = s THEN NoSection ELSE worker[w]]
    /\ firstDone' = IF firstDone = NoSection THEN s ELSE firstDone

\* `return result` (lines 261, 270, 317, 323) through the finally clause.
\* The call's local variables end with it.
Return(s, j) ==
    /\ job' = [job EXCEPT ![s] = [j EXCEPT !.pc = "returned",
                                           !.enough_points = FALSE,
                                           !.thickness_found = FALSE]]
    /\ Deliver(s, j.result)

\* An exception outside the try block leaves process_single_section.
Propagate(s, j) ==
    /\ job' = [job EXCEPT ![s] = [j EXCEPT !.pc = "raised"]]
    /\ Deliver(s, Raised)

\* Faulty variant: a failure is flagged without a message.
Failed_Silent(j, msg) == [j EXCEPT !.result.success = FALSE]

\* Faulty variant: a failure also forgets the files recorded so far.
Failed_Reset(j, msg) ==
    [j EXCEPT !.result.success = FALSE, !.result.errors = Append(@, msg),
              !.result.created_files = <<>>]

\* result["success"] = False; result["errors"].append(msg)
Failed(j, msg) ==
    [j EXCEPT !.result.success = FALSE, !.result.errors = Append(@, msg)]

\* The except clause of lines 318-323.
Except(s, j) == Return(s, Failed(j, "exception"))

\* result["created_files"].append(path)
Recorded(j, path) == [j EXCEPT !.result.created_files = Append(@, path)]

\* Faulty variants: an output file is written but not recorded.
RecordLog_Skipped(j, s) == j
RecordVtk_Skipped(j, s) == j

\* Line 239: the log path is recorded before the handler opens the file.
RecordLog(j, s) == Recorded(j, FilePath(s, "2dmesh.log"))

\* Line 307: output.vtk is recorded once it has been written and read back.
RecordVtk(j, s) == Recorded(j, FilePath(s, "output.vtk"))

\* Line 314: anba.json is recorded after the export and the removal of mesh.pck.
RecordAnba(j, s) == Recorded(j, FilePath(s, "anba.json"))

At(s, pc) == job[s].pc = pc

\* Lines 225-234: build the result, os.makedirs(section_dir, exist_ok=True).
ProcessSingleSection_Makedirs(s) ==
    /\ At(s, "makedirs")
    /\ LET j == [job[s] EXCEPT !.result = NewResult(s)] IN
       \E ok \in BOOLEAN :
         IF ok
         THEN /\ dirs' = dirs \cup {SectionDir(s)}
              /\ job' = [job EXCEPT ![s] = [j EXCEPT !.pc = "openlog"]]
              /\ UNCHANGED <<mapValue, worker, firstDone>>
         ELSE /\ Propagate(s, j)
              /\ UNCHANGED dirs
    /\ UNCHANGED <<vtp, num_processes, mainPc, pool_created, unique_ids,
                   taskQueue, results, summary, files>>
    /\ UNCHANGED <<anbaVars, cliVars, bomVars, moreVars>>

\* Lines 235-246: record the log path, open it with logging.FileHandler.
ProcessSingleSection_OpenLog(s) ==
    /\ At(s, "openlog")
    /\ LET j == RecordLog(job[s], s) IN
       \E ok \in BOOLEAN :
         IF ok
         THEN /\ files' = files \cup {FilePath(s, "2dmesh.log")}
              /\ job' = [job EXCEPT ![s] = [j EXCEPT !.pc = "extract"]]
              /\ UNCHANGED <<mapValue, worker, firstDone>>
         ELSE /\ Propagate(s, j)
              /\ UNCHANGED files
    /\ UNCHANGED <<vtp, num_processes, mainPc, pool_created, unique_ids,
                   taskQueue, results, summary, dirs>>
    /\ UNCHANGED <<anbaVars, cliVars, bomVars, moreVars>>

\* Lines 248-261: read, threshold, (debug plot,) extract, check the points.
ProcessSingleSection_Extract(s) ==
    /\ At(s, "extract")
    /\ \E ok \in BOOLEAN, n \in PointCounts :
         LET j == [job[s] EXCEPT !.enough_points =
                       Len(Points(n)) >= MinPoints /\ validate_points(Points(n))]
         IN
         IF ~ok THEN Except(s, job[s])
         ELSE IF InvalidPoints(Points(n))
         THEN Return(s, Failed(j, "Invalid points"))
         ELSE /\ job' = [job EXCEPT ![s] = [j EXCEPT !.pc = "thickness"]]
              /\ UNCHANGED <<mapValue, worker, firstDone>>
    /\ UNCHANGED <<vtp, num_processes, mainPc, pool_created, unique_ids,
                   taskQueue, results, summary, dirs, files>>
    /\ UNCHANGED <<anbaVars, cliVars, bomVars, moreVars>>

\* Lines 262-270: get_ply_thicknesses_and_materials, check airfoil_thicknesses.
ProcessSingleSection_Thickness(s) ==
    /\ At(s, "thickness")
    /\ \E ok \in BOOLEAN, k \in PlyCounts :
         LET j == [job[s] EXCEPT !.thickness_found = k > 0] IN
         IF ~ok THEN Except(s, job[s])
         ELSE IF k = 0
         THEN Return(s, Failed(j, "No thicknesses"))
         ELSE /\ job' = [job EXCEPT ![s] = [j EXCEPT !.pc = "mesh"]]
              /\ UNCHANGED <<mapValue, worker, firstDone>>
    /\ UNCHANGED <<vtp, num_processes, mainPc, pool_created, unique_ids,
                   taskQueue, results, summary, dirs, files>>
    /\ UNCHANGED <<anbaVars, cliVars, bomVars, moreVars>>

\* Lines 271-293: define_skins_and_webs, AirfoilMesh, generate_mesh.
ProcessSingleSection_Mesh(s) ==
    /\ At(s, "mesh")
    /\ \E outcome \in {"define_raises", "generate_raises", "ok"} :
         LET called == outcome # "define_raises"
             j == [job[s] EXCEPT
                     !.generate_mesh_called = called,
                     !.called_unqualified =
                         called /\ ~(job[s].enough_points /\ job[s].thickness_found)]
         IN IF outcome # "ok" THEN Except(s, j)
            ELSE /\ job' = [job EXCEPT ![s] = [j EXCEPT !.pc = "savevtk"]]
                 /\ UNCHANGED <<mapValue, worker, firstDone>>
    /\ UNCHANGED <<vtp, num_processes, mainPc, pool_created, unique_ids,
                   taskQueue, results, summary, dirs, files>>
    /\ UNCHANGED <<anbaVars, cliVars, bomVars, moreVars>>

\* Lines 294-307: save_mesh_to_vtk, read it back, record output.vtk.
ProcessSingleSection_SaveVtk(s) ==
    /\ At(s, "savevtk")
    /\ \E written \in BOOLEAN, ok \in BOOLEAN :
         /\ ok => written
         /\ files' = IF written THEN files \cup {FilePath(s, "output.vtk")} ELSE files
         /\ IF ~ok THEN Except(s, job[s])
            ELSE /\ job' = [job EXCEPT ![s] =
                       [RecordVtk(job[s], s) EXCEPT !.pc = "pickle"]]
                 /\ UNCHANGED <<mapValue, worker, firstDone>>
    /\ UNCHANGED <<vtp, num_processes, mainPc, pool_created, unique_ids,
                   taskQueue, results, summary, dirs>>
    /\ UNCHANGED <<anbaVars, cliVars, bomVars, moreVars>>

\* Lines 308-310: open mesh.pck for writing, pickle.dump the mesh result.
ProcessSingleSection_Pickle(s) ==
    /\ At(s, "pickle")
    /\ \E written \in BOOLEAN, ok \in BOOLEAN :
         /\ ok => written
         /\ files' = IF written THEN files \cup {FilePath(s, "mesh.pck")} ELSE files
         /\ IF ~ok THEN Except(s, job[s])
            ELSE /\ job' = [job EXCEPT ![s].pc = "export"]
                 /\ UNCHANGED <<mapValue, worker, firstDone>>
    /\ UNCHANGED <<vtp, num_processes, mainPc, pool_created, unique_ids,
                   taskQueue, results, summary, dirs>>
    /\ UNCHANGED <<anbaVars, cliVars, bomVars, moreVars>>

\* Lines 311-312: export_mesh_to_anba(mesh_file, anba_file, matdb=matdb).
ProcessSingleSection_Export(s) ==
    /\ At(s, "export")
    /\ \E written \in BOOLEAN, ok \in BOOLEAN :
         /\ ok => written
         /\ files' = IF written THEN files \cup {FilePath(s, "anba.json")} ELSE files
         /\ IF ~ok THEN Except(s, job[s])
            ELSE /\ job' = [job EXCEPT ![s].pc = "remove"]
                 /\ UNCHANGED <<mapValue, worker, firstDone>>
    /\ UNCHANGED <<vtp, num_processes, mainPc, pool_created, unique_ids,
                   taskQueue, results, summary, dirs>>
    /\ UNCHANGED <<anbaVars, cliVars, bomVars, moreVars>>

\* Lines 313-317: os.remove(mesh_file), record anba.json, return result.
ProcessSingleSection_Finish(s) ==
    /\ At(s, "remove")
    /\ \E ok \in BOOLEAN :
         IF ~ok THEN Except(s, job[s]) /\ UNCHANGED files
         ELSE /\ files' = files \ {FilePath(s, "mesh.pck")}
              /\ Return(s, RecordAnba(job[s], s))
    /\ UNCHANGED <<vtp, num_processes, mainPc, pool_created, unique_ids,
                   taskQueue, results, summary, dirs>>
    /\ UNCHANGED <<anbaVars, cliVars, bomVars, moreVars>>

\* ------------------------------------------------ process_vtp_multi_section
\* Faulty variant: the field check is left out.
HasSectionIdField_Unchecked(mesh) == TRUE

\* "section_id" in mesh_vtp.cell_data (line 338)
HasSectionIdField(mesh) == mesh.has_section_id

\* Lines 337-354: read the mesh, check the field, collect the ids, start the
\* pool and hand it one task per id.
ProcessVtpMultiSection_Start ==
    /\ mainPc = "start"
    /\ IF ~HasSectionIdField(vtp)
       THEN /\ mainPc' = "ValueError: section_id not found in VTP file"
            /\ UNCHANGED <<pool_created, unique_ids, taskQueue, job, mapValue>>
       ELSE LET ids == sorted(Range(vtp.section_id)) IN
            /\ unique_ids' = ids
            /\ pool_created' = TRUE
            /\ taskQueue' = ids
            /\ mapValue' = [i \in 1..Len(ids) |-> NoResult]
            /\ job' = [s \in SectionIds |->
                         IF s \in Range(ids) THEN [job[s] EXCEPT !.pc = "queued"]
                         ELSE job[s]]
            /\ mainPc' = "starmap"
    /\ UNCHANGED <<vtp, num_processes, worker, firstDone, results, summary,
                   dirs, files>>
    /\ UNCHANGED <<anbaVars, cliVars, bomVars, moreVars>>

\* A free worker process takes the next task of the pool's queue.
Pool_TakeTask(w) ==
    /\ mainPc = "starmap"
    /\ w \in 1..num_processes
    /\ worker[w] = NoSection
    /\ taskQueue # <<>>
    /\ worker' = [worker EXCEPT ![w] = Head(taskQueue)]
    /\ job' = [job EXCEPT ![Head(taskQueue)].pc = "makedirs"]
    /\ taskQueue' = Tail(taskQueue)
    /\ UNCHANGED <<vtp, num_processes, mainPc, pool_created, unique_ids,
                   mapValue, firstDone, results, summary, dirs, files>>
    /\ UNCHANGED <<anbaVars, cliVars, bomVars, moreVars>>

\* sum(1 for r in results if r["success"])  (line 356)
SuccessCount(rs) == Cardinality({i \in DOMAIN rs : rs[i].success})

\* Lines 348-370: starmap returns once every task is done, re-raising a
\* worker's exception; then the counts are taken and results returned.
ProcessVtpMultiSection_Join ==
    /\ mainPc = "starmap"
    /\ \A i \in DOMAIN mapValue : mapValue[i] # NoResult
    /\ IF \E i \in DOMAIN mapValue : mapValue[i] = Raised
       THEN /\ mainPc' = "raised_worker"
            /\ UNCHANGED <<results, summary>>
       ELSE /\ results' = mapValue
            /\ summary' = [successful_count |-> SuccessCount(mapValue),
                           failed_count |-> Len(mapValue) - SuccessCount(mapValue)]
            /\ mainPc' = "returned"
    /\ UNCHANGED <<vtp, num_processes, pool_created, unique_ids, taskQueue,
                   worker, job, mapValue, firstDone, dirs, files>>
    /\ UNCHANGED <<anbaVars, cliVars, bomVars, moreVars>>

MeshNext ==
    \/ ProcessVtpMultiSection_Start
    \/ \E w \in 1..MaxProcs : Pool_TakeTask(w)
    \/ \E s \in SectionIds : ProcessSingleSection_Makedirs(s)
    \/ \E s \in SectionIds : ProcessSingleSection_OpenLog(s)
    \/ \E s \in SectionIds : ProcessSingleSection_Extract(s)
    \/ \E s \in SectionIds : ProcessSingleSection_Thickness(s)
    \/ \E s \in SectionIds : ProcessSingleSection_Mesh(s)
    \/ \E s \in SectionIds : ProcessSingleSection_SaveVtk(s)
    \/ \E s \in SectionIds : ProcessSingleSection_Pickle(s)
    \/ \E s \in SectionIds : ProcessSingleSection_Export(s)
    \/ \E s \in SectionIds : ProcessSingleSection_Finish(s)
    \/ ProcessVtpMultiSection_Join

SpecMesh == MeshInit /\ [][MeshNext]_vars

\* ======================================================================
\* B32dAnbaStep (state/b3_2d_anba.py)
\* ======================================================================
\* What the mesh step leaves in the directory of a section it has meshed.
MeshOutputs(s) ==
    {FilePath(s, "2dmesh.log"), FilePath(s, "output.vtk"), FilePath(s, "anba.json")}

\* The step runs on a b3_2d/ directory as the mesh step can leave it: a
\* successful section has its outputs and possibly bom.json, a failed one
\* only its log.
AnbaInit ==
    /\ MeshIdle /\ CliIdle /\ BomIdle /\ MoreIdle
    /\ \E meshed \in SUBSET AnbaSections :
       \E withBom \in {{}, meshed} :
         /\ dirs = {SectionDir(s) : s \in AnbaSections}
         /\ files = UNION {MeshOutputs(s) : s \in meshed}
                    \cup {FilePath(s, "bom.json") : s \in withBom}
                    \cup {FilePath(s, "2dmesh.log") : s \in AnbaSections}
    /\ anbaEnv \in [conda_found : BOOLEAN, env_returncode : {0, 1}, env_listed : BOOLEAN]
    /\ max_workers \in 1..MaxProcs
    /\ anbaPc = "start"
    /\ anba_files = <<>>
    /\ calls = <<>>
    /\ future = [s \in AnbaSections |-> NoFuture]
    /\ run = [s \in AnbaSections |-> NoRun]
    /\ logs = [s \in AnbaSections |-> <<>>]
    /\ anba4_results = <<>>
    /\ stepLog = {}

\* logger.error(...), logger.warning(...), logger.info(...)
Logged(message) == {message}

\* The orders in which a glob can list the members of S.
Listings(S) == {l \in [1..Cardinality(S) -> S] : Range(l) = S}

\* Names of the files of section s that match "*" + suffix.
Glob(s, suffix) ==
    {name \in {"anba.json", "bom.json", "anba_solve.json"} :
        suffix = ".json" /\ FilePath(s, name) \in files}
    \cup {name \in {"anba_solve.vtp"} :
        suffix = ".vtp" /\ FilePath(s, name) \in files}

\* Lines 68-75: glob section_*/anba.json; without any, log an error and end.
Execute_Locate ==
    /\ anbaPc = "start"
    /\ \E found \in Listings({s \in AnbaSections : FilePath(s, "anba.json") \in files}) :
         /\ anba_files' = found
         /\ IF found = <<>>
            THEN /\ stepLog' = stepLog \cup Logged(<<"error", "No anba.json files found in b3_2d/">>)
                 /\ anbaPc' = "done"
            ELSE /\ anbaPc' = "find_conda"
                 /\ UNCHANGED stepLog
    /\ UNCHANGED <<anbaEnv, max_workers, calls, future, run, logs, anba4_results>>
    /\ UNCHANGED <<meshVars, fsVars, cliVars, bomVars, moreVars>>

\* Faulty variant: the step goes on to `conda env list` without a conda.
Execute_FindConda_Unchecked ==
    /\ anbaPc = "find_conda"
    /\ anbaPc' = "env_list"
    /\ UNCHANGED <<anbaEnv, max_workers, anba_files, calls, future, run, logs,
                   anba4_results, stepLog>>
    /\ UNCHANGED <<meshVars, fsVars, cliVars, bomVars, moreVars>>

\* Lines 76-80: CONDA_EXE or shutil.which("conda").
Execute_FindConda ==
    /\ anbaPc = "find_conda"
    /\ IF ~anbaEnv.conda_found
       THEN /\ stepLog' = stepLog \cup Logged(<<"error", "Conda not found - please install conda">>)
            /\ anbaPc' = "done"
       ELSE /\ anbaPc' = "env_list"
            /\ UNCHANGED stepLog
    /\ UNCHANGED <<anbaEnv, max_workers, anba_files, calls, future, run, logs,
                   anba4_results>>
    /\ UNCHANGED <<meshVars, fsVars, cliVars, bomVars, moreVars>>

\* Lines 81-88: one `conda env list`; the environment must be listed.
Execute_EnvList ==
    /\ anbaPc = "env_list"
    /\ calls' = Append(calls, [cmd |-> "env list"])
    /\ IF anbaEnv.env_returncode # 0 \/ ~anbaEnv.env_listed
       THEN /\ stepLog' = stepLog \cup Logged(<<"error", "Conda environment not found - please create it">>)
            /\ anbaPc' = "done"
       ELSE /\ anbaPc' = "submit"
            /\ UNCHANGED stepLog
    /\ UNCHANGED <<anbaEnv, max_workers, anba_files, future, run, logs, anba4_results>>
    /\ UNCHANGED <<meshVars, fsVars, cliVars, bomVars, moreVars>>

\* workdir / "anba4_results" (line 89).
AnbaResultsDir == <<"anba4_results">>

\* Lines 89-95: create anba4_results/, submit one run_anba_for_file per file.
Execute_Submit ==
    /\ anbaPc = "submit"
    /\ future' = [s \in AnbaSections |->
                    IF s \in Range(anba_files)
                    THEN [state |-> "pending", success |-> FALSE]
                    ELSE future[s]]
    /\ dirs' = dirs \cup {AnbaResultsDir}
    /\ anbaPc' = "as_completed"
    /\ UNCHANGED <<anbaEnv, max_workers, anba_files, calls, run, logs,
                   anba4_results, stepLog, files>>
    /\ UNCHANGED <<meshVars, cliVars, bomVars, moreVars>>

\* The conda_command of lines 26-36.
CondaCommand(s) ==
    [cmd |-> "run anba4-run",
     i |-> <<FilePath(s, "anba.json")>>,
     o |-> FilePath(s, "anba_solve.json")]

Running == {s \in AnbaSections : future[s].state \in {"running", "exited"}}

\* The earliest submitted run no worker has taken yet.
NextPending(s) ==
    /\ future[s].state = "pending"
    /\ \A i \in DOMAIN anba_files :
           i < IndexOf(anba_files, s) => future[anba_files[i]].state # "pending"

\* A worker process starts run_anba_for_file(s): lines 23-49 up to the
\* launch of the solver subprocess.
RunAnbaForFile_Launch(s) ==
    /\ anbaPc = "as_completed"
    /\ NextPending(s)
    /\ Cardinality(Running) < max_workers
    /\ calls' = Append(calls, CondaCommand(s))
    /\ future' = [future EXCEPT ![s].state = "running"]
    /\ UNCHANGED <<anbaEnv, max_workers, anbaPc, anba_files, run, logs,
                   anba4_results, stepLog>>
    /\ UNCHANGED <<meshVars, fsVars, cliVars, bomVars, moreVars>>

\* The solver subprocess of section s ends: a return code, its captured
\* output, and the files it has written beside its input.
Solver_Exit(s) ==
    /\ future[s].state = "running"
    /\ \E rc \in {0, 1}, out \in {<<>>, <<"stdout">>}, err \in {<<>>, <<"stderr">>},
          wroteJson \in BOOLEAN, wroteVtp \in BOOLEAN :
         /\ wroteJson <=> (rc = 0)
         /\ wroteVtp => (rc = 0)
         /\ run' = [run EXCEPT ![s] = [returncode |-> rc, stdout |-> out, stderr |-> err]]
         /\ files' = files
                \cup (IF wroteJson THEN {FilePath(s, "anba_solve.json")} ELSE {})
                \cup (IF wroteVtp THEN {FilePath(s, "anba_solve.vtp")} ELSE {})
    /\ future' = [future EXCEPT ![s].state = "exited"]
    /\ UNCHANGED <<anbaEnv, max_workers, anbaPc, anba_files, calls, logs,
                   anba4_results, stepLog, dirs>>
    /\ UNCHANGED <<meshVars, cliVars, bomVars, moreVars>>

\* success = result.returncode == 0  (line 50)
RunSucceeded(result) == result.returncode = 0

\* Faulty variant: stderr is put in the log only for a failed run.
LogText_StderrOnFailure(s, result) ==
    <<"--- ANBA4 run for anba_file ---">> \o result.stdout
        \o (IF result.returncode # 0 THEN result.stderr ELSE <<>>)

\* Lines 51-55: the header line, stdout, and stderr when there is any.
LogText(s, result) ==
    <<"--- ANBA4 run for anba_file ---">> \o result.stdout
        \o (IF result.stderr # <<>> THEN result.stderr ELSE <<>>)

\* Lines 59-63: the files moved out of the section directory after a
\* successful run: every *.json but the input, and every *.vtp.
Moved(s) == (Glob(s, ".json") \ {"anba.json"}) \cup Glob(s, ".vtp")

\* shutil.move(f, anba_results_dir / f.name) for each name: a file of the
\* same name already there is replaced.
MoveIn(dir, names, s) ==
    [n \in DOMAIN dir \cup names |-> IF n \in names THEN s ELSE dir[n]]

\* Lines 50-64: write the log, move the outputs on success, return.
RunAnbaForFile_Finish(s) ==
    /\ future[s].state = "exited"
    /\ logs' = [logs EXCEPT ![s] = LogText(s, run[s])]
    /\ IF RunSucceeded(run[s])
       THEN /\ anba4_results' = MoveIn(anba4_results, Moved(s), s)
            /\ files' = (files \ {FilePath(s, n) : n \in Moved(s)})
                            \cup {FilePath(s, "anba_solve.log")}
       ELSE /\ files' = files \cup {FilePath(s, "anba_solve.log")}
            /\ UNCHANGED anba4_results
    /\ future' = [future EXCEPT ![s] = [state |-> "done", success |-> RunSucceeded(run[s])]]
    /\ UNCHANGED <<anbaEnv, max_workers, anbaPc, anba_files, calls, run, stepLog, dirs>>
    /\ UNCHANGED <<meshVars, cliVars, bomVars, moreVars>>

\* Lines 96-101: as_completed yields a finished future; its outcome is logged.
Execute_Collect(s) ==
    /\ anbaPc = "as_completed"
    /\ future[s].state = "done"
    /\ future' = [future EXCEPT ![s].state = "collected"]
    /\ stepLog' = stepLog \cup Logged(IF future[s].success THEN <<"info", "ANBA4 completed for", s>>
                    ELSE <<"error", "ANBA4 failed for", s>>)
    /\ UNCHANGED <<anbaEnv, max_workers, anbaPc, anba_files, calls, run, logs,
                   anba4_results>>
    /\ UNCHANGED <<meshVars, fsVars, cliVars, bomVars, moreVars>>

\* Faulty variant: the step does not wait for the submitted runs.
AllCollected_NoWait == TRUE

\* as_completed is exhausted once every future has been yielded (line 96).
AllCollected == \A s \in Range(anba_files) : future[s].state = "collected"

\* Line 102: the loop and the executor are left; the step ends.
Execute_End ==
    /\ anbaPc = "as_completed"
    /\ AllCollected
    /\ anbaPc' = "done"
    /\ stepLog' = stepLog \cup Logged(<<"info", "ANBA4 processing completed">>)
    /\ UNCHANGED <<anbaEnv, max_workers, anba_files, calls, future, run, logs,
                   anba4_results>>
    /\ UNCHANGED <<meshVars, fsVars, cliVars, bomVars, moreVars>>

AnbaNext ==
    \/ Execute_Locate
    \/ Execute_FindConda
    \/ Execute_EnvList
    \/ Execute_Submit
    \/ \E s \in AnbaSections : RunAnbaForFile_Launch(s)
    \/ \E s \in AnbaSections : Solver_Exit(s)
    \/ \E s \in AnbaSections : RunAnbaForFile_Finish(s)
    \/ \E s \in AnbaSections : Execute_Collect(s)
    \/ Execute_End

SpecAnba == AnbaInit /\ [][AnbaNext]_vars

\* ======================================================================
\* The CLI command `anba all` (cli/commands/anba_all.py, cli/cli.py)
\* ======================================================================
\* The command is given an output directory as the mesh command leaves it.
CliInit ==
    /\ MeshIdle /\ BomIdle /\ MoreIdle
    /\ \E meshed \in SUBSET AnbaSections :
         /\ dirs = {SectionDir(s) : s \in AnbaSections}
         /\ files = UNION {MeshOutputs(s) : s \in meshed}
                    \cup {FilePath(s, "2dmesh.log") : s \in AnbaSections}
    /\ anbaEnv \in [conda_found : BOOLEAN, env_returncode : {0, 1}, env_listed : BOOLEAN]
    /\ max_workers = 1
    /\ anbaPc = "off"
    /\ anba_files = <<>>
    /\ calls = <<>>
    /\ future = [s \in AnbaSections |-> NoFuture]
    /\ run = [s \in AnbaSections |-> NoRun]
    /\ logs = [s \in AnbaSections |-> <<>>]
    /\ anba4_results = <<>>
    /\ stepLog = {}
    /\ cliPc = "start"

\* Lines 21-25: glob section_*/anba.json; without any, warn and return.
AnbaAll_Locate ==
    /\ cliPc = "start"
    /\ \E found \in Listings({s \in AnbaSections : FilePath(s, "anba.json") \in files}) :
         /\ anba_files' = found
         /\ IF found = <<>>
            THEN /\ stepLog' = stepLog \cup Logged(<<"warning", "No anba.json files found">>)
                 /\ cliPc' = "done"
            ELSE /\ cliPc' = "find_conda"
                 /\ UNCHANGED stepLog
    /\ UNCHANGED <<anbaEnv, max_workers, anbaPc, calls, future, run, logs, anba4_results>>
    /\ UNCHANGED <<meshVars, fsVars, bomVars, moreVars>>

\* Lines 26-29: CONDA_EXE or shutil.which("conda").
AnbaAll_FindConda ==
    /\ cliPc = "find_conda"
    /\ IF ~anbaEnv.conda_found
       THEN /\ stepLog' = stepLog \cup Logged(<<"error", "Conda not found">>)
            /\ cliPc' = "done"
       ELSE /\ cliPc' = "env_list"
            /\ UNCHANGED stepLog
    /\ UNCHANGED <<anbaEnv, max_workers, anbaPc, anba_files, calls, future, run,
                   logs, anba4_results>>
    /\ UNCHANGED <<meshVars, fsVars, bomVars, moreVars>>

\* Lines 30-33: `conda env list`; only its stdout is looked at.
AnbaAll_EnvList ==
    /\ cliPc = "env_list"
    /\ calls' = Append(calls, [cmd |-> "env list"])
    /\ IF ~anbaEnv.env_listed
       THEN /\ stepLog' = stepLog \cup Logged(<<"error", "Conda env not found">>)
            /\ cliPc' = "done"
       ELSE /\ cliPc' = "run"
            /\ UNCHANGED stepLog
    /\ UNCHANGED <<anbaEnv, max_workers, anbaPc, anba_files, future, run, logs,
                   anba4_results>>
    /\ UNCHANGED <<meshVars, fsVars, bomVars, moreVars>>

\* Lines 34-36: [conda, "run", "-n", env, "anba4-run", "-i"] with every
\* located file appended.
AnbaAllCommand(found) ==
    [cmd |-> "run anba4-run",
     i |-> [k \in DOMAIN found |-> FilePath(found[k], "anba.json")]]

\* Lines 34-53: build the command, run it, log the outcome.
AnbaAll_Run ==
    /\ cliPc = "run"
    /\ calls' = Append(calls, AnbaAllCommand(anba_files))
    /\ \E rc \in {0, 1} :
         stepLog' = stepLog \cup Logged(IF rc # 0 THEN <<"error", "ANBA4 failed">>
                      ELSE <<"info", "ANBA4 completed for all sections">>)
    /\ cliPc' = "done"
    /\ UNCHANGED <<anbaEnv, max_workers, anbaPc, anba_files, future, run, logs,
                   anba4_results>>
    /\ UNCHANGED <<meshVars, fsVars, bomVars, moreVars>>

CliNext ==
    \/ AnbaAll_Locate
    \/ AnbaAll_FindConda
    \/ AnbaAll_EnvList
    \/ AnbaAll_Run

SpecCli == CliInit /\ [][CliNext]_vars

\* ======================================================================
\* compute_bom (core/bom.py)
\* ======================================================================
\* Areas and densities are exact numbers here (whole units); the rounding
\* of floating-point sums is outside this model.
AreaValues == {1, 2}
MaterialIds == {1, 2}
RhoValues == {2, 3}

\* A value given as "id" in a matdb entry, with its Python type: 1, 2, 1.0, "1".
IdValues ==
    {[type |-> "int", v |-> 1], [type |-> "int", v |-> 2],
     [type |-> "float", v |-> 1], [type |-> "str", v |-> 1]}

\* The props dict of a matdb entry: it may lack "id", and it may lack "rho".
PropsSet ==
    {p \in [has_id : BOOLEAN, id : IdValues, has_rho : BOOLEAN, rho : RhoValues] :
        /\ (~p.has_id => p.id = [type |-> "int", v |-> 1])
        /\ (~p.has_rho => p.rho = 2)}

\* A mesh whose cell_data holds the fields named in `fields`.
BomMeshes ==
    {m \in [fields : SUBSET {"Area", "material_id"},
            Area : SeqsUpTo(AreaValues, MaxBomCells),
            material_id : SeqsUpTo(MaterialIds, MaxBomCells)] :
        /\ ("Area" \notin m.fields => m.Area = <<>>)
        /\ ("material_id" \notin m.fields => m.material_id = <<>>)
        /\ ({"Area", "material_id"} \subseteq m.fields
                => Len(m.Area) = Len(m.material_id))}

BomInit ==
    /\ MeshIdle /\ AnbaIdle /\ CliIdle /\ MoreIdle
    /\ dirs = {} /\ files = {}
    /\ bomMesh \in BomMeshes
    /\ bomMatdb \in SeqsUpTo(PropsSet, MaxMatdb)
    /\ bomPc = "input"
    /\ bomResult = NoBom

RECURSIVE SumSeq(_)
\* numpy's .sum() of an array, in exact arithmetic.
SumSeq(a) == IF a = <<>> THEN 0 ELSE Head(a) + SumSeq(Tail(a))

\* Faulty variant: the mask selects the cells of every material id >= mat_id.
Mask_AtLeast(material_id, mat_id) ==
    [i \in DOMAIN material_id |-> material_id[i] >= mat_id]

\* mesh.cell_data["material_id"] == mat_id  (line 17)
Mask(material_id, mat_id) == [i \in DOMAIN material_id |-> material_id[i] = mat_id]

RECURSIVE Masked(_, _)
\* array[mask]: the elements of the array at which the mask is True.
Masked(a, mask) ==
    IF a = <<>> THEN <<>>
    ELSE (IF Head(mask) THEN <<Head(a)>> ELSE <<>>) \o Masked(Tail(a), Tail(mask))

\* np.unique(array) gives the distinct values (ascending); iterating it and
\* taking int(mat_id) gives the keys of areas_per_material.
np_unique(a) == sorted(Range(a))

\* Lines 14-18.
AreasPerMaterial(mesh) ==
    [m \in Range(np_unique(mesh.material_id)) |->
        SumSeq(Masked(mesh.Area, Mask(mesh.material_id, m)))]

\* Python's equality of dict keys between an int key and an id value: an
\* int or a float equal in value matches, a str never does.
KeyEq(mat_id, id) == id.type \in {"int", "float"} /\ id.v = mat_id

\* Lines 24-27: id_to_props[props["id"]] = props over the matdb items, in
\* order, so a later entry with an equal id replaces an earlier one; then
\* `mat_id in id_to_props` and id_to_props[mat_id].
HasProps(matdb, mat_id) ==
    \E i \in DOMAIN matdb : matdb[i].has_id /\ KeyEq(mat_id, matdb[i].id)

\* Faulty variant: the first entry with an equal id is kept instead of the last.
IdToProps_First(matdb, mat_id) ==
    LET hits == {i \in DOMAIN matdb : matdb[i].has_id /\ KeyEq(mat_id, matdb[i].id)}
    IN matdb[CHOOSE i \in hits : \A k \in hits : i <= k]

IdToProps(matdb, mat_id) ==
    LET hits == {i \in DOMAIN matdb : matdb[i].has_id /\ KeyEq(mat_id, matdb[i].id)}
    IN matdb[CHOOSE i \in hits : \A k \in hits : k <= i]

\* The test of line 32.
HasDensity(matdb, mat_id) ==
    HasProps(matdb, mat_id) /\ IdToProps(matdb, mat_id).has_rho

\* Lines 29-36: the masses of the materials that have a density.
MassesPerMaterial(areas, matdb) ==
    [m \in {k \in DOMAIN areas : HasDensity(matdb, k)} |->
        areas[m] * IdToProps(matdb, m).rho]

RECURSIVE SumValues(_)
\* total_mass += mass over the entries  (lines 30, 36)
SumValues(f) ==
    IF DOMAIN f = {} THEN 0
    ELSE LET k == CHOOSE x \in DOMAIN f : TRUE
         IN f[k] + SumValues([x \in DOMAIN f \ {k} |-> f[x]])

\* Faulty variant: only the Area field is looked for.
compute_bom_AreaOnly(mesh, matdb) ==
    IF "Area" \notin mesh.fields
    THEN NoBom
    ELSE [total_area |-> SumSeq(mesh.Area),
          areas_per_material |-> AreasPerMaterial(mesh)]

\* compute_bom(mesh, matdb)
compute_bom(mesh, matdb) ==
    IF "Area" \notin mesh.fields \/ "material_id" \notin mesh.fields
    THEN NoBom
    ELSE LET bom_data == [total_area |-> SumSeq(mesh.Area),
                          areas_per_material |-> AreasPerMaterial(mesh)]
             masses == MassesPerMaterial(bom_data.areas_per_material, matdb)
         IN IF matdb # <<>>
            THEN [total_area |-> bom_data.total_area,
                  areas_per_material |-> bom_data.areas_per_material,
                  total_mass |-> SumValues(masses),
                  masses_per_material |-> masses]
            ELSE bom_data

ComputeBom ==
    /\ bomPc = "input"
    /\ bomResult' = compute_bom(bomMesh, bomMatdb)
    /\ bomPc' = "done"
    /\ UNCHANGED <<bomMesh, bomMatdb>>
    /\ UNCHANGED <<meshVars, fsVars, anbaVars, cliVars, moreVars>>

BomNext == ComputeBom

SpecBom == BomInit /\ [][BomNext]_vars

\* ======================================================================
\* B32dStep._execute and its own compute_bom (state/b3_2d_mesh.py)
\* ======================================================================
\* A matdb entry that gives the density of a material.
DensityProps == {p \in PropsSet : p.has_id /\ p.id.type = "int" /\ p.has_rho}

\* self.config.get("matdb", {}): absent, or giving one material's density.
StepMatdbs == {<<>>} \cup {<<p>> : p \in DensityProps}

\* What pv.read gives for an output.vtk.
StepMeshes ==
    {m \in [fields : SUBSET {"Area", "material_id"},
            Area : SeqsUpTo(AreaValues, MaxStepCells),
            material_id : SeqsUpTo(MaterialIds, MaxStepCells)] :
        /\ ("Area" \notin m.fields => m.Area = <<>>)
        /\ ("material_id" \notin m.fields => m.material_id = <<>>)
        /\ ({"Area", "material_id"} \subseteq m.fields
                => Len(m.Area) = Len(m.material_id))}

\* What process_vtp_multi_section returns to the step: one result per
\* section id, ascending; vtk_exists says whether output.vtk is on disk and
\* has_bom whether bom.json has been appended to created_files.
StepResultLists ==
    {rs \in SeqsUpTo([section_id : StepSections, success : BOOLEAN,
                      vtk_exists : BOOLEAN, has_bom : {FALSE}], MaxStepSections) :
        /\ \A i, k \in DOMAIN rs : i < k => rs[i].section_id < rs[k].section_id
        /\ \A i \in DOMAIN rs : ~rs[i].success => ~rs[i].vtk_exists}

StepInit ==
    /\ MeshIdle /\ AnbaIdle /\ CliIdle /\ BomIdle /\ RestIdle /\ ExtractIdle /\ SortIdle /\ ValidIdle
    /\ PostIdle /\ AppIdle
    /\ dirs = {} /\ files = {}
    /\ stepPc = "start"
    /\ stepMatdb \in StepMatdbs
    /\ stepResults = <<>>
    /\ stepIdx = 0
    /\ stepMesh = [fields |-> {}, Area |-> <<>>, material_id |-> <<>>]
    /\ stepBom = NoBom
    /\ bomJson = [s \in StepSections |-> NoBom]

\* Faulty variant: a mesh without the fields gives an empty BOM, not None.
step_compute_bom_NoNone(mesh) ==
    [total_area |-> SumSeq(mesh.Area),
     areas_per_material |->
        [m \in Range(np_unique(mesh.material_id)) |->
            SumSeq(Masked(mesh.Area, Mask(mesh.material_id, m)))]]

\* compute_bom(mesh) of state/b3_2d_mesh.py, lines 12-24.
step_compute_bom(mesh) ==
    IF "Area" \in mesh.fields /\ "material_id" \in mesh.fields
    THEN [total_area |-> SumSeq(mesh.Area),
          areas_per_material |->
             [m \in Range(np_unique(mesh.material_id)) |->
                 SumSeq(Masked(mesh.Area, Mask(mesh.material_id, m)))]]
    ELSE NoBom

\* Lines 39-47: the step calls process_vtp_multi_section with its matdb; the
\* call returns its results or raises.
Step_Mesh ==
    /\ stepPc = "start"
    /\ \/ /\ stepResults' \in StepResultLists
          /\ stepPc' = "loop"
       \/ /\ stepPc' = "raised"
          /\ UNCHANGED stepResults
    /\ UNCHANGED <<stepMatdb, stepIdx, stepMesh, stepBom, bomJson>>
    /\ UNCHANGED <<baseVars, extractVars, sortVars, validVars, postVars, appVars>>

\* Lines 50-61, one pass of the loop: for a successful result whose
\* output.vtk exists, read the mesh, compute its BOM and, if there is one,
\* dump it to bom.json and record the file.
Step_Section ==
    /\ stepPc = "loop"
    /\ stepIdx < Len(stepResults)
    /\ LET r == stepResults[stepIdx + 1]
       IN IF r.success /\ r.vtk_exists
          THEN \E mesh \in StepMeshes :
                  LET bom_data == step_compute_bom(mesh)
                  IN /\ stepMesh' = mesh
                     /\ stepBom' = bom_data
                     /\ IF bom_data # NoBom
                        THEN /\ bomJson' = [bomJson EXCEPT ![r.section_id] = bom_data]
                             /\ stepResults' =
                                  [stepResults EXCEPT ![stepIdx + 1].has_bom = TRUE]
                        ELSE UNCHANGED <<bomJson, stepResults>>
          ELSE UNCHANGED <<stepMesh, stepBom, bomJson, stepResults>>
    /\ stepIdx' = stepIdx + 1
    /\ UNCHANGED <<stepPc, stepMatdb>>
    /\ UNCHANGED <<baseVars, extractVars, sortVars, validVars, postVars, appVars>>

\* Lines 62-80: the loop is over; the table is printed and the step ends.
Step_Finish ==
    /\ stepPc = "loop"
    /\ stepIdx = Len(stepResults)
    /\ stepPc' = "done"
    /\ UNCHANGED <<stepMatdb, stepResults, stepIdx, stepMesh, stepBom, bomJson>>
    /\ UNCHANGED <<baseVars, extractVars, sortVars, validVars, postVars, appVars>>

StepNext ==
    \/ Step_Mesh
    \/ Step_Section
    \/ Step_Finish

SpecStep == StepInit /\ [][StepNext]_vars

\* ======================================================================
\* extract_airfoil_and_web_points (core/mesh.py)
\* ======================================================================
\* A section mesh is its cells in order, each with its panel_id and the
\* (x, y) of a point it uses, and the section's twist (degrees), dx and dy,
\* which are uniform over the cells. Twists are multiples of 90 degrees, so
\* that the rotation is exact on whole coordinates.
PanelIds == {-3, -2, -1, 0, 1}
PointValues == {<<1, 0>>, <<1, 2>>}
TwistValues == {0, 90}
\* (dx, dy) of a section: none, or an offset in both directions.
Offsets == {<<0, 0>>, <<1, 2>>}

ExtractCells == [panel_id : PanelIds, p : PointValues]

ExtractInit ==
    /\ MeshIdle /\ AnbaIdle /\ CliIdle /\ BomIdle /\ RestIdle /\ StepIdle /\ SortIdle /\ ValidIdle
    /\ PostIdle /\ AppIdle
    /\ dirs = {} /\ files = {}
    /\ exSection \in [cells : SeqsUpTo(ExtractCells, MaxExtractCells),
                      twist : TwistValues, dx : {d[1] : d \in Offsets},
                      dy : {d[2] : d \in Offsets}]
    /\ <<exSection.dx, exSection.dy>> \in Offsets
    /\ exPc = "input"
    /\ exOut = NoExtract

\* cos and sin of a multiple of 90 degrees.
Cos(deg) == CASE deg % 360 = 0 -> 1 [] deg % 360 = 180 -> -1 [] OTHER -> 0
Sin(deg) == CASE deg % 360 = 90 -> 1 [] deg % 360 = 270 -> -1 [] OTHER -> 0

\* The (x, y) of a point after mesh.rotate_z(deg): a rotation about the
\* origin, counter-clockwise for a positive angle.
RotateZ(p, deg) ==
    <<p[1] * Cos(deg) - p[2] * Sin(deg), p[1] * Sin(deg) + p[2] * Cos(deg)>>

\* mesh.rotate_z(deg) on the cells of a mesh.
rotate_z(cells, deg) ==
    [i \in DOMAIN cells |-> [cells[i] EXCEPT !.p = RotateZ(cells[i].p, deg)]]

\* Faulty variant: the threshold leaves out its lower limit.
threshold_Open(cells, lo, hi) ==
    LET Keep(c) == lo < c.panel_id /\ c.panel_id <= hi
    IN SelectSeq(cells, Keep)

\* mesh.threshold(value=(lo, hi), scalars="panel_id"): the cells whose
\* panel_id lies in [lo, hi], in their order.
threshold(cells, lo, hi) ==
    LET Keep(c) == lo <= c.panel_id /\ c.panel_id <= hi
    IN SelectSeq(cells, Keep)

Min(S) == CHOOSE x \in S : \A y \in S : x <= y
Max(S) == CHOOSE x \in S : \A y \in S : y <= x

RECURSIVE SortedIndices(_, _)
\* sorted(range(n), key=lambda i: y[i]) restricted to the indices in S:
\* ascending y, equal y in index order (the sort is stable).
SortedIndices(y, S) ==
    IF S = {} THEN <<>>
    ELSE LET i == CHOOSE a \in S :
                     \A b \in S : y[a] < y[b] \/ (y[a] = y[b] /\ a <= b)
         IN <<i>> \o SortedIndices(y, S \ {i})

\* sort_points_by_y on the cells of the trailing edge (lines 82-84).
SortCellsByY(cells) ==
    LET order == SortedIndices([i \in DOMAIN cells |-> cells[i].p[2]], DOMAIN cells)
    IN [k \in DOMAIN order |-> cells[order[k]]]

\* bb_size(mesh) squared: (xmax - xmin)^2 + (ymax - ymin)^2; a mesh with
\* no points has vtk's bounds (1, -1, 1, -1).
BbSizeSq(cells) ==
    IF cells = <<>> THEN 8
    ELSE LET xs == {cells[i].p[1] : i \in DOMAIN cells}
             ys == {cells[i].p[2] : i \in DOMAIN cells}
         IN (Max(xs) - Min(xs)) * (Max(xs) - Min(xs))
            + (Max(ys) - Min(ys)) * (Max(ys) - Min(ys))

\* te_bb > 0.03 * section_bb (line 88), on the squares.
TeIsLarge(te, section) == 10000 * BbSizeSq(te) > 9 * BbSizeSq(section)

\* mesh.points[:, :2].tolist()
Points2d(cells) == [i \in DOMAIN cells |-> cells[i].p]

\* sorted(ids, reverse=True) of a set of distinct numbers.
RECURSIVE sorted_reverse(_)
sorted_reverse(S) ==
    IF S = {} THEN <<>>
    ELSE <<Max(S)>> \o sorted_reverse(S \ {Max(S)})

\* Lines 95-103: one (points, mesh) pair per web panel id that has cells.
RECURSIVE WebData(_, _)
WebData(cells, web_panel_ids) ==
    IF web_panel_ids = <<>> THEN <<>>
    ELSE LET pid == Head(web_panel_ids)
             web == threshold(cells, pid, pid)
         IN (IF web = <<>> THEN <<>>
             ELSE <<[points_2d |-> Points2d(web), web |-> web]>>)
            \o WebData(cells, Tail(web_panel_ids))

\* The value extract_airfoil_and_web_points returns for a section whose
\* skin threshold is valid.
extract_airfoil_and_web_points(section_mesh) ==
    LET panel_ids == {section_mesh.cells[i].panel_id : i \in DOMAIN section_mesh.cells}
        negative_panel_ids == {pid \in panel_ids : pid < 0}
        rotated == rotate_z(section_mesh.cells, 0 - section_mesh.twist)
        section == threshold(rotated, 0, Max(panel_ids))
    IN IF negative_panel_ids = {}
       THEN [points_2d |-> Points2d(section), web_data |-> <<>>, airfoil |-> section]
       ELSE LET min_panel_id == Min(negative_panel_ids)
                web_panel_ids == sorted_reverse(negative_panel_ids \ {min_panel_id})
                te == SortCellsByY(threshold(rotated, min_panel_id, min_panel_id))
                airfoil == IF TeIsLarge(te, section) THEN section \o te ELSE section
            IN [points_2d |-> Points2d(airfoil),
                web_data |-> WebData(rotated, web_panel_ids),
                airfoil |-> airfoil]

\* The call. np.unique(...)[0] of line 61 raises IndexError on a section
\* without cells. When no panel_id is >= 0 the skin threshold is asked for
\* the range (0, max) with max < 0, which pyvista either rejects with a
\* ValueError or answers with no cells, depending on its version.
ExtractAirfoilAndWebPoints ==
    /\ exPc = "input"
    /\ IF exSection.cells = <<>>
       THEN exPc' = "raised" /\ UNCHANGED exOut
       ELSE LET panel_ids == {exSection.cells[i].panel_id : i \in DOMAIN exSection.cells}
            IN \/ /\ exOut' = extract_airfoil_and_web_points(exSection)
                  /\ exPc' = "returned"
               \/ /\ Max(panel_ids) < 0
                  /\ exPc' = "raised"
                  /\ UNCHANGED exOut
    /\ UNCHANGED exSection
    /\ UNCHANGED <<baseVars, stepVars, sortVars, validVars, postVars, appVars>>

ExtractNext == ExtractAirfoilAndWebPoints

SpecExtract == ExtractInit /\ [][ExtractNext]_vars

\* ======================================================================
\* sort_points_by_y (core/mesh.py)
\* ======================================================================
\* A triangle mesh: its points as (x, y), its cells as the flat array
\* [3, a, b, c, 3, ...] of 0-based point ids, and one point_data array w.
SortPointValues == {<<0, 1>>, <<1, 0>>, <<2, 1>>}
PointDataValues == {0, 1}

\* The triangles on n points: three distinct point ids each.
TrianglesOn(n) ==
    {t \in [1..3 -> 0..(n - 1)] : t[1] # t[2] /\ t[1] # t[3] /\ t[2] # t[3]}

RECURSIVE FlatCells(_)
\* The cells array of a list of triangles: 3 and the point ids, per cell.
FlatCells(tris) ==
    IF tris = <<>> THEN <<>>
    ELSE <<3>> \o Head(tris) \o FlatCells(Tail(tris))

SortInit ==
    /\ MeshIdle /\ AnbaIdle /\ CliIdle /\ BomIdle /\ RestIdle /\ StepIdle /\ ExtractIdle /\ ValidIdle
    /\ PostIdle /\ AppIdle
    /\ dirs = {} /\ files = {}
    /\ \E points \in SeqsUpTo(SortPointValues, MaxSortPoints) :
          \E w \in [DOMAIN points -> PointDataValues] :
             \E tris \in SeqsUpTo(TrianglesOn(Len(points)), MaxSortCells) :
                sortMesh = [points |-> points, cells |-> FlatCells(tris), w |-> w]
    /\ sortPc = "input"
    /\ sortOut = NoSortMesh

\* Faulty variant: the sort order is used as the map from old to new ids.
OldToNew_AsOrder(sorted_indices) ==
    [old \in 0..(Len(sorted_indices) - 1) |-> sorted_indices[old + 1]]

\* old_to_new = {old: new for new, old in enumerate(sorted_indices)}  (line 27)
OldToNew(sorted_indices) ==
    [old \in 0..(Len(sorted_indices) - 1) |->
        (CHOOSE k \in DOMAIN sorted_indices : sorted_indices[k] = old) - 1]

\* array[sorted_indices] for a list of 0-based indices.
Take(array, sorted_indices) ==
    [k \in DOMAIN sorted_indices |-> array[sorted_indices[k] + 1]]

\* sort_points_by_y(mesh), lines 22-34. The 0-based position of entry i of
\* cells is i - 1: positions 1::4, 2::4 and 3::4 are remapped, 0::4 (the
\* cell sizes) are kept.
sort_points_by_y(mesh) ==
    LET n == Len(mesh.points)
        sorted_indices ==
            SortedIndices([i \in 0..(n - 1) |-> mesh.points[i + 1][2]], 0..(n - 1))
        old_to_new == OldToNew(sorted_indices)
    IN [points |-> Take(mesh.points, sorted_indices),
        cells |-> [i \in DOMAIN mesh.cells |->
                      IF (i - 1) % 4 = 0 THEN mesh.cells[i]
                      ELSE old_to_new[mesh.cells[i]]],
        w |-> Take(mesh.w, sorted_indices)]

SortPointsByY ==
    /\ sortPc = "input"
    /\ sortOut' = sort_points_by_y(sortMesh)
    /\ sortPc' = "done"
    /\ UNCHANGED sortMesh
    /\ UNCHANGED <<baseVars, stepVars, extractVars, validVars, postVars, appVars>>

SortNext == SortPointsByY

SpecSort == SortInit /\ [][SortNext]_vars

\* ======================================================================
\* validate_points on any argument (core/mesh.py)
\* ======================================================================
\* A Python value is its type and, for a list or a tuple, its items.
Scalar(type) == [type |-> type, items |-> <<>>]

\* The components a point is tried with: an int, a float and a str.
Components == {Scalar("int"), Scalar("float"), Scalar("str")}

\* The elements a list is tried with: lists and tuples of one to three
\* components, None and a str.
Elements ==
    {[type |-> ty, items |-> it] :
        ty \in {"list", "tuple"}, it \in UNION {[1..k -> Components] : k \in 1..3}}
    \cup {Scalar("NoneType"), Scalar("str")}

\* The arguments: None, a str, and lists and tuples of elements.
Arguments ==
    {[type |-> ty, items |-> it] :
        ty \in {"list"}, it \in SeqsUpTo(Elements, MaxValidPoints)}
    \cup {[type |-> "tuple", items |-> <<e>>] : e \in Elements}
    \cup {Scalar("NoneType"), Scalar("str")}

ValidInit ==
    /\ MeshIdle /\ AnbaIdle /\ CliIdle /\ BomIdle /\ RestIdle
    /\ StepIdle /\ ExtractIdle /\ SortIdle /\ PostIdle /\ AppIdle
    /\ dirs = {} /\ files = {}
    /\ valArg \in Arguments
    /\ valPc = "input"
    /\ valOut = FALSE

\* isinstance(v, classes)
IsInstance(v, classes) == v.type \in classes

\* Faulty variant: a point of more than two components passes.
BadShape_AtLeastTwo(p) == ~IsInstance(p, {"list", "tuple"}) \/ Len(p.items) < 2

\* The test of line 42: not isinstance(p, (list, tuple)) or len(p) != 2.
BadShape(p) == ~IsInstance(p, {"list", "tuple"}) \/ Len(p.items) # 2

\* The test of line 44: all(isinstance(c, (int, float)) for c in p).
AllNumbers(p) == \A c \in DOMAIN p.items : IsInstance(p.items[c], {"int", "float"})

RECURSIVE ValidateFrom(_)
\* Lines 41-46: the loop over the points, ended by the first bad one.
ValidateFrom(points) ==
    IF points = <<>> THEN TRUE
    ELSE IF BadShape(Head(points)) THEN FALSE
    ELSE IF ~AllNumbers(Head(points)) THEN FALSE
    ELSE ValidateFrom(Tail(points))

\* validate_points(points_2d), lines 39-46.
validate_points_of(points_2d) ==
    IF ~IsInstance(points_2d, {"list"}) THEN FALSE
    ELSE ValidateFrom(points_2d.items)

ValidatePoints ==
    /\ valPc = "input"
    /\ valOut' = validate_points_of(valArg)
    /\ valPc' = "done"
    /\ UNCHANGED valArg
    /\ UNCHANGED <<baseVars, stepVars, extractVars, sortVars, postVars, appVars>>

ValidNext == ValidatePoints

SpecValid == ValidInit /\ [][ValidNext]_vars

\* ======================================================================
\* B32dPostStep._execute (state/b3_2d_post.py) with plot_bom_spanwise
\* (core/bom_plotting.py) and plot_span_anba (core/span_plotting.py)
\* ======================================================================
\* What a section directory holds as bom.json: nothing, a BOM with the
\* required keys, or a JSON object without them.
BomFileKinds == {"none", "valid", "invalid"}

\* What it holds as anba_out.json: nothing, the four required keys (centers
\* and principal angle), those and stiffness and mass, or an object that
\* lacks a required key.
AnbaFileKinds == {"none", "centers", "full", "invalid"}

\* A file of b3_2d/ by the name before ".png" and what follows it.
PngFile(stem) == <<stem, ".png">>

\* output_file.replace('.png', suffix) for a suffix ending in '.png'.
ReplacePng(file, suffix) == <<file[1], suffix>>

PostInit ==
    /\ MeshIdle /\ AnbaIdle /\ CliIdle /\ BomIdle /\ RestIdle
    /\ StepIdle /\ ExtractIdle /\ SortIdle /\ ValidIdle /\ AppIdle
    /\ dirs = {} /\ files = {}
    /\ postBom \in [PostSections -> BomFileKinds]
    /\ postAnba \in [PostSections -> AnbaFileKinds]
    /\ postFiles = {}
    /\ postLog = {}
    /\ postPc = "start"

\* plot_bom_spanwise(output_dir, output_file, matdb): the files it leaves.
\* It saves output_file when a bom.json has the required keys (lines 13-27,
\* 80) and nothing otherwise.
plot_bom_spanwise(bom, output_file) ==
    IF \E s \in DOMAIN bom : bom[s] = "valid" THEN {output_file} ELSE {}

\* plot_span_centers(data_list, output_file) saves output_file (line 43).
plot_span_centers(data_list, output_file) == {output_file}

\* plot_span_stiff(data_list, output_file) saves output_file when a section
\* has stiffness and mass (lines 50-53, 83).
plot_span_stiff(data_list, output_file) ==
    IF \E s \in DOMAIN data_list : data_list[s] = "full" THEN {output_file} ELSE {}

\* plot_span_anba(output_dir, output_file): the files it leaves. data_list
\* holds the sections whose anba_out.json has the required keys; with none
\* it returns at line 104.
plot_span_anba(anba, output_file) ==
    LET valid == {s \in DOMAIN anba : anba[s] \in {"centers", "full"}}
        data_list == [s \in valid |-> anba[s]]
    IN IF valid = {} THEN {}
       ELSE plot_span_centers(data_list, ReplacePng(output_file, "_centers.png"))
            \cup plot_span_stiff(data_list, ReplacePng(output_file, "_stiff.png"))

\* Lines 21-34: the BOM plot and the message on whether its file exists.
Post_PlotBom ==
    /\ postPc = "start"
    /\ LET bom_plot_file == PngFile("bom_spanwise")
           after == postFiles \cup plot_bom_spanwise(postBom, bom_plot_file)
       IN /\ postFiles' = after
          /\ postLog' = postLog \cup
                {IF bom_plot_file \in after
                 THEN <<"info", "BOM plot saved to", bom_plot_file>>
                 ELSE <<"warning", "BOM plot not generated", bom_plot_file>>}
    /\ postPc' = "anba"
    /\ UNCHANGED <<postBom, postAnba>>
    /\ UNCHANGED <<baseVars, stepVars, extractVars, sortVars, validVars, appVars>>

\* Lines 36-45: the ANBA plot and the message on whether its file exists.
Post_PlotAnba ==
    /\ postPc = "anba"
    /\ LET anba_plot_file == PngFile("anba_spanwise")
           after == postFiles \cup plot_span_anba(postAnba, anba_plot_file)
       IN /\ postFiles' = after
          /\ postLog' = postLog \cup
                {IF anba_plot_file \in after
                 THEN <<"info", "ANBA plot saved to", anba_plot_file>>
                 ELSE <<"warning", "ANBA plot not generated", anba_plot_file>>}
    /\ postPc' = "done"
    /\ UNCHANGED <<postBom, postAnba>>
    /\ UNCHANGED <<baseVars, stepVars, extractVars, sortVars, validVars, appVars>>

PostNext ==
    \/ Post_PlotBom
    \/ Post_PlotAnba

SpecPost == PostInit /\ [][PostNext]_vars

\* ======================================================================
\* The CLI application b3_2d (cli/cli.py)
\* ======================================================================
\* The words a command line is made of.
Words == {"mesh", "plot", "span", "anba", "all", "single"}

\* The commands of cli/cli.py by name, with their callbacks.
mesh_cmd == [name |-> "mesh", callback |-> "mesh_command"]
plot_cmd == [name |-> "plot", callback |-> "plot_command"]
anba_all_cmd == [name |-> "all", callback |-> "anba_all_command"]
anba_single_cmd == [name |-> "single", callback |-> "anba_single_command"]
anba_plot_cmd == [name |-> "plot", callback |-> "anba_plot_command"]

\* Lines 300-304.
anba_group ==
    [name |-> "anba", commands |-> <<anba_all_cmd, anba_single_cmd, anba_plot_cmd>>]

\* Lines 306-316: app = cli(name="b3_2d", commands=[mesh_cmd, plot_cmd],
\* subgroups=[anba_group], ...).
app_cli ==
    [name |-> "b3_2d", commands |-> <<mesh_cmd, plot_cmd>>, subgroups |-> <<anba_group>>]

AppInit ==
    /\ MeshIdle /\ AnbaIdle /\ CliIdle /\ BomIdle /\ RestIdle
    /\ StepIdle /\ ExtractIdle /\ SortIdle /\ ValidIdle /\ PostIdle
    /\ dirs = {} /\ files = {}
    /\ argv \in SeqsUpTo(Words, MaxArgs)
    /\ app = NoApp
    /\ appPc = "import"
    /\ appTarget = "none"

\* Importing cli/cli.py builds the application.
App_Import ==
    /\ appPc = "import"
    /\ app' = app_cli
    /\ appPc' = "main"
    /\ UNCHANGED <<argv, appTarget>>
    /\ UNCHANGED <<baseVars, stepVars, extractVars, sortVars, validVars, postVars>>

\* The callback a list of commands gives for the words left, or a usage
\* error: the first word names the command and no word may follow it.
Lookup(commands, words) ==
    IF Len(words) = 1 /\ \E i \in DOMAIN commands : commands[i].name = words[1]
    THEN commands[CHOOSE i \in DOMAIN commands : commands[i].name = words[1]].callback
    ELSE "usage error"

\* app.run() on the words of the command line: a top-level command, or a
\* subgroup followed by one of its commands.
Resolve(a, words) ==
    IF words = <<>> THEN "help"
    ELSE IF \E g \in DOMAIN a.subgroups : a.subgroups[g].name = words[1]
    THEN LET grp == a.subgroups[CHOOSE g \in DOMAIN a.subgroups :
                                    a.subgroups[g].name = words[1]]
         IN IF Len(words) = 1 THEN "help" ELSE Lookup(grp.commands, Tail(words))
    ELSE Lookup(a.commands, words)

\* main(): app.run() (line 320).
App_Run ==
    /\ appPc = "main"
    /\ appTarget' = Resolve(app, argv)
    /\ appPc' = "done"
    /\ UNCHANGED <<argv, app>>
    /\ UNCHANGED <<baseVars, stepVars, extractVars, sortVars, validVars, postVars>>

AppNext ==
    \/ App_Import
    \/ App_Run

SpecApp == AppInit /\ [][AppNext]_vars

\* ----------------------------------------------------------------------
\* The steps in workflow order: the ANBA step on what the mesh step left,
\* then the post step on what the ANBA step left.

\* What plot_bom_spanwise and plot_span_anba find under b3_2d/ when the post
\* step starts: section_*/bom.json as the mesh step wrote it (bom_plotting.py
\* line 13) and section_*/anba_out.json (span_plotting.py line 90).
FoundBom(s) ==
    IF s \in AnbaSections /\ FilePath(s, "bom.json") \in files THEN "valid" ELSE "none"

FoundAnba(s, kind) ==
    IF s \in AnbaSections /\ FilePath(s, "anba_out.json") \in files THEN kind ELSE "none"

\* B32dPostStep._execute is entered once the ANBA step has ended.
Pipeline_StartPost ==
    /\ anbaPc = "done"
    /\ postPc = "off"
    /\ postBom' = [s \in PostSections |-> FoundBom(s)]
    /\ \E kind \in AnbaFileKinds \ {"none"} :
         postAnba' = [s \in PostSections |-> FoundAnba(s, kind)]
    /\ postPc' = "start"
    /\ UNCHANGED <<postFiles, postLog>>
    /\ UNCHANGED <<baseVars, stepVars, extractVars, sortVars, validVars, appVars>>

PipelineNext ==
    \/ AnbaNext
    \/ Pipeline_StartPost
    \/ PostNext

SpecPipeline == AnbaInit /\ [][PipelineNext]_vars

\* ----------------------------------------------------------------------
\* The logging state around process_single_section, in one process that is
\* handed sections one after another (a pool worker, or a direct caller).

\* logging's numeric levels.
LevelNo(l) ==
    CASE l = "NOTSET" -> 0 [] l = "DEBUG" -> 10 [] l = "INFO" -> 20
      [] l = "WARNING" -> 30

\* Logger.getEffectiveLevel of the module logger: its own level, or the
\* root's while it has none.
EffectiveLevel(cfg) ==
    IF cfg.logger_level # "NOTSET" THEN cfg.logger_level ELSE cfg.root_level

\* The 2dmesh.log files a message of the module logger at `level` reaches:
\* those of the handlers attached to it, if the logger is enabled for it.
Reached(cfg, level) ==
    IF LevelNo(level) >= LevelNo(EffectiveLevel(cfg)) THEN cfg.handlers ELSE {}

LogInit ==
    /\ MeshIdle /\ AnbaIdle /\ CliIdle /\ BomIdle
    /\ StepIdle /\ ExtractIdle /\ SortIdle /\ ValidIdle /\ PostIdle /\ AppIdle
    /\ SkinIdle /\ PlotIdle
    /\ dirs = {} /\ files = {}
    /\ \E level \in {"DEBUG", "INFO", "WARNING"} :
         logCfg = [DefaultLogging EXCEPT !.root_level = level]
    /\ logBefore = logCfg
    /\ logCall = [NoLogCall EXCEPT !.pc = "idle"]
    /\ logLines = [s \in LogSections |-> {}]
    /\ logCalls = 0

\* Lines 235-237: the root level is saved and set to WARNING.
Log_Enter(s) ==
    /\ logCall.pc \in {"idle", "returned", "raised"}
    /\ logCalls < MaxLogCalls
    /\ logCalls' = logCalls + 1
    /\ logBefore' = logCfg
    /\ logCall' = [pc |-> "open", section |-> s, original_level |-> logCfg.root_level]
    /\ logCfg' = [logCfg EXCEPT !.root_level = "WARNING"]
    /\ UNCHANGED logLines
    /\ UNCHANGED <<meshVars, fsVars, anbaVars, cliVars, bomVars, stepVars,
                   extractVars, sortVars, validVars, postVars, appVars, skinVars,
                   plotVars>>

\* Lines 238-246: logging.FileHandler opens the log, which can raise; then
\* the module logger is set to INFO, stops propagating and gets the handler.
Log_Open ==
    /\ logCall.pc = "open"
    /\ \E ok \in BOOLEAN :
         IF ok
         THEN /\ logCfg' = [logCfg EXCEPT !.logger_level = "INFO",
                                          !.propagate = FALSE,
                                          !.handlers = @ \cup {logCall.section}]
              /\ logCall' = [logCall EXCEPT !.pc = "try"]
         ELSE /\ logCall' = [logCall EXCEPT !.pc = "raised"]
              /\ UNCHANGED logCfg
    /\ UNCHANGED <<logBefore, logLines, logCalls>>
    /\ UNCHANGED <<meshVars, fsVars, anbaVars, cliVars, bomVars, stepVars,
                   extractVars, sortVars, validVars, postVars, appVars, skinVars,
                   plotVars>>

\* Lines 247-323: the body logs through the module logger (logger.info at
\* line 248, and a warning or an error on the failing paths) and returns.
Log_Try ==
    /\ logCall.pc = "try"
    /\ \E level \in {"INFO", "WARNING"} :
         logLines' = [h \in LogSections |->
                        IF h \in Reached(logCfg, "INFO") \cup Reached(logCfg, level)
                        THEN logLines[h] \cup {logCall.section}
                        ELSE logLines[h]]
    /\ logCall' = [logCall EXCEPT !.pc = "finally"]
    /\ UNCHANGED <<logCfg, logBefore, logCalls>>
    /\ UNCHANGED <<meshVars, fsVars, anbaVars, cliVars, bomVars, stepVars,
                   extractVars, sortVars, validVars, postVars, appVars, skinVars,
                   plotVars>>

\* Lines 324-326: the handler is removed and the root level put back.
Log_Finally ==
    /\ logCall.pc = "finally"
    /\ logCfg' = [logCfg EXCEPT !.handlers = @ \ {logCall.section},
                                !.root_level = logCall.original_level]
    /\ logCall' = [logCall EXCEPT !.pc = "returned"]
    /\ UNCHANGED <<logBefore, logLines, logCalls>>
    /\ UNCHANGED <<meshVars, fsVars, anbaVars, cliVars, bomVars, stepVars,
                   extractVars, sortVars, validVars, postVars, appVars, skinVars,
                   plotVars>>

LogNext ==
    \/ \E s \in LogSections : Log_Enter(s)
    \/ Log_Open
    \/ Log_Try
    \/ Log_Finally

SpecLog == LogInit /\ [][LogNext]_vars

\* ----------------------------------------------------------------------
\* get_thickness_and_material_arrays and define_skins_and_webs on the
\* fields of an airfoil mesh.
\*
\* A field is [ply, kind, at]: its name is "ply_" + ply + "_" + kind, and it
\* is point data or cell data of the mesh.

\* What can stand between "ply_" and the kind: numbers in one or two
\* digits, and a text without digits.
PlyTexts == {"1", "2", "10", "a"}

FieldUniverse == [ply : PlyTexts, kind : {"thickness", "material"}, at : {"point", "cell"}]

FieldName(f) == <<f.ply, f.kind>>

\* re.match(r"ply_.*_thickness", k) (line 112): any text may stand between
\* "ply_" and "_thickness".
IsThicknessKey(f) == f.kind = "thickness"

\* re.search(r"ply_(\d+)", x) finds a number (lines 114, 146).
HasPlyNumber(f) == f.ply \in {"1", "2", "10"}

\* int(re.search(r"ply_(\d+)", x).group(1))
PlyNumber(f) == CASE f.ply = "1" -> 1 [] f.ply = "2" -> 2 [] f.ply = "10" -> 10

\* k.replace("_thickness", "_material") (lines 115, 150), as a name.
MaterialName(f) == <<f.ply, "material">>

\* list.sort / sorted with the ply number as key: ascending and stable.
RECURSIVE SortByPly(_)
SortByPly(keys) ==
    IF keys = <<>> THEN <<>>
    ELSE LET h == Head(keys)
             rest == SortByPly(Tail(keys))
         IN SelectSeq(rest, LAMBDA x : PlyNumber(x) < PlyNumber(h))
            \o <<h>>
            \o SelectSeq(rest, LAMBDA x : PlyNumber(x) >= PlyNumber(h))

SkinRaised(e) == [raised |-> e, skins |-> <<>>]

\* Lines 110-121: the thickness keys among the point data of the converted
\* mesh, sorted by ply number, and for each the material array taken from
\* the cell data of the mesh.
get_thickness_and_material_arrays(mesh) ==
    LET thickness_keys == SelectSeq(mesh, IsThicknessKey)
        cell_data == {FieldName(mesh[i]) : i \in {j \in DOMAIN mesh : mesh[j].at = "cell"}}
    IN IF \E i \in DOMAIN thickness_keys : ~HasPlyNumber(thickness_keys[i])
       THEN SkinRaised("AttributeError")
       ELSE IF \E i \in DOMAIN thickness_keys :
                   MaterialName(thickness_keys[i]) \notin cell_data
       THEN SkinRaised("KeyError")
       ELSE [raised |-> "none", thicknesses |-> SortByPly(thickness_keys)]

\* Lines 144-161: one Skin per thickness key in ply order.
define_skins_and_webs(airfoil_thicknesses) ==
    LET skin_thickness_keys == SortByPly(airfoil_thicknesses) IN
    [raised |-> "none",
     skins |-> [i \in DOMAIN skin_thickness_keys |->
                  [name |-> <<"skin", i>>,
                   thickness |-> FieldName(skin_thickness_keys[i]),
                   material |-> MaterialName(skin_thickness_keys[i]),
                   sort_index |-> i]]]

SkinInit ==
    /\ MeshIdle /\ AnbaIdle /\ CliIdle /\ BomIdle
    /\ StepIdle /\ ExtractIdle /\ SortIdle /\ ValidIdle /\ PostIdle /\ AppIdle
    /\ LogIdle /\ PlotIdle
    /\ dirs = {} /\ files = {}
    /\ skinMesh \in {m \in SeqsUpTo(FieldUniverse, MaxFields) :
                        \A i, j \in DOMAIN m : i # j => FieldName(m[i]) # FieldName(m[j])}
    /\ skinPc = "start"
    /\ skinOut = NoSkins

\* Lines 262-277 of process_single_section, for the airfoil.
Skin_Build ==
    /\ skinPc = "start"
    /\ LET got == get_thickness_and_material_arrays(skinMesh) IN
       skinOut' = IF got.raised # "none" THEN got
                  ELSE define_skins_and_webs(got.thicknesses)
    /\ skinPc' = "done"
    /\ UNCHANGED skinMesh
    /\ UNCHANGED <<meshVars, fsVars, anbaVars, cliVars, bomVars, stepVars,
                   extractVars, sortVars, validVars, postVars, appVars, logVars,
                   plotVars>>

SkinNext == Skin_Build

SpecSkin == SkinInit /\ [][SkinNext]_vars

\* ----------------------------------------------------------------------
\* plot_bom_spanwise on the section directories as the mesh step names them.

PlotSections == 1..MaxPlotSections

\* f"{section_id}" for an element of the section_id array (mesh.py line
\* 225): the digits of an integer, and ".0" after them for a float.
IdText(id, dtype) == [digits |-> id, point_zero |-> dtype = "float"]

\* The name of the directory process_single_section makes for the id.
SectionDirName(id, dtype) == <<"section", IdText(id, dtype)>>

\* name.split("_")[1] of such a name (line 16).
SplitName(name) == name[2]

\* int(text) accepts the digits of an integer only.
IntParses(text) == ~text.point_zero

IntOf(text) == text.digits

\* all(k in data for k in required_keys) (lines 19-20).
HasRequiredKeys(kind) == kind = "valid"

\* data_list.sort(key=lambda x: x[0]) (line 24), the ids being distinct.
RECURSIVE SortIds(_)
SortIds(ids) ==
    IF ids = <<>> THEN <<>>
    ELSE LET h == Head(ids)
             rest == SortIds(Tail(ids))
         IN SelectSeq(rest, LAMBDA x : x < h) \o <<h>>
            \o SelectSeq(rest, LAMBDA x : x >= h)

\* Lines 13-27 and 80: the ids are parsed from the directory names, the
\* sections with the required keys are kept and sorted, and the figure is
\* saved when one is left.
plot_bom_spanwise_run(bom_files, dtype, output_file) ==
    LET names == [i \in DOMAIN bom_files |-> SectionDirName(bom_files[i].id, dtype)]
        valid == SelectSeq(bom_files, LAMBDA bf : HasRequiredKeys(bf.kind))
        data_list == SortIds([i \in DOMAIN valid |-> IntOf(IdText(valid[i].id, dtype))])
    IN IF \E i \in DOMAIN names : ~IntParses(SplitName(names[i]))
       THEN [raised |-> "ValueError", written |-> {}, z_vals |-> <<>>]
       ELSE [raised |-> "none",
             written |-> plot_bom_spanwise(
                            [i \in DOMAIN bom_files |-> bom_files[i].kind], output_file),
             z_vals |-> data_list]

PlotInit ==
    /\ MeshIdle /\ AnbaIdle /\ CliIdle /\ BomIdle
    /\ StepIdle /\ ExtractIdle /\ SortIdle /\ ValidIdle /\ PostIdle /\ AppIdle
    /\ LogIdle /\ SkinIdle
    /\ dirs = {} /\ files = {}
    /\ plotIdType \in {"int", "float"}
    /\ plotFiles \in {l \in SeqsUpTo([id : PlotSections, kind : {"valid", "invalid"}],
                                     MaxPlotSections) :
                         \A i, j \in DOMAIN l : i # j => l[i].id # l[j].id}
    /\ plotPc = "start"
    /\ plotOut = NoPlot

\* plot_bom_spanwise(str(output_dir), str(bom_plot_file), matdb)
Plot_Run ==
    /\ plotPc = "start"
    /\ plotOut' = plot_bom_spanwise_run(plotFiles, plotIdType, PngFile("bom_spanwise"))
    /\ plotPc' = "done"
    /\ UNCHANGED <<plotIdType, plotFiles>>
    /\ UNCHANGED <<meshVars, fsVars, anbaVars, cliVars, bomVars, stepVars,
                   extractVars, sortVars, validVars, postVars, appVars, logVars,
                   skinVars>>

PlotNext == Plot_Run

SpecPlot == PlotInit /\ [][PlotNext]_vars

\* ======================================================================
\* Properties of the meshing fan-out (under SpecMesh)
\* ======================================================================
Returned(s) == job[s].pc = "returned"

DistinctIds == Range(vtp.section_id)

\* C1: process_single_section never propagates an exception: every call
\* that has ended has returned a result (one with success = False and an
\* error text whenever an error occurred).
C1_NeverPropagates ==
    \A s \in SectionIds : job[s].pc # "raised"

\* C2: process_vtp_multi_section returns exactly one result per distinct
\* section_id of the input, in ascending section_id order, whatever the
\* number of workers and the order they finish in; failed sections
\* contribute their result, so successful + failed = number of distinct ids.
C2_OneResultPerIdAscending ==
    mainPc = "returned" =>
        /\ Len(results) = Cardinality(DistinctIds)
        /\ {results[i].section_id : i \in DOMAIN results} = DistinctIds
        /\ \A i, k \in DOMAIN results :
               i < k => results[i].section_id < results[k].section_id
        /\ summary.successful_count = SuccessCount(results)
        /\ summary.successful_count + summary.failed_count = Cardinality(DistinctIds)

\* Two workers, the higher section finished first, one section failed and
\* one succeeded, and the call has returned.
C2_Witness ==
    /\ mainPc = "returned"
    /\ num_processes = 2
    /\ Len(results) = 2
    /\ firstDone = results[2].section_id
    /\ results[1].success
    /\ ~results[2].success

\* C3: whenever process_single_section returns success = True, the section
\* directory holds output.vtk, anba.json and 2dmesh.log, and created_files
\* is exactly the log, then output.vtk, then anba.json.
C3_SuccessHasAllOutputs ==
    \A s \in SectionIds :
        (Returned(s) /\ job[s].result.success) =>
            /\ SectionDir(s) \in dirs
            /\ {FilePath(s, "2dmesh.log"), FilePath(s, "output.vtk"),
                FilePath(s, "anba.json")} \subseteq files
            /\ job[s].result.created_files =
                   <<FilePath(s, "2dmesh.log"), FilePath(s, "output.vtk"),
                     FilePath(s, "anba.json")>>

C3_Witness ==
    \E s \in SectionIds : Returned(s) /\ job[s].result.success

\* C4: every result process_single_section returns, successful or failed,
\* has the keys section_id, success, output_dir, created_files and errors,
\* its output_dir exists and created_files contains the section's 2dmesh.log.
C4_ResultShape ==
    \A s \in SectionIds :
        Returned(s) =>
            /\ {"section_id", "success", "output_dir", "created_files", "errors"}
                   \subseteq DOMAIN job[s].result
            /\ job[s].result.section_id = s
            /\ job[s].result.output_dir \in dirs
            /\ FilePath(s, "2dmesh.log") \in Range(job[s].result.created_files)

\* A failed result and a successful one have both been returned.
C4_Witness ==
    \E s, u \in SectionIds :
        /\ Returned(s) /\ ~job[s].result.success
        /\ Returned(u) /\ job[u].result.success

\* C5: with no section_id cell field process_vtp_multi_section raises
\* ValueError('section_id not found in VTP file') before any pool is
\* created, any section is processed or any output directory is written.
C5_NoSectionIdRaisesFirst ==
    ~vtp.has_section_id =>
        /\ mainPc \in {"start", "ValueError: section_id not found in VTP file"}
        /\ ~pool_created
        /\ \A s \in SectionIds : job[s].pc = "idle"
        /\ dirs = {} /\ files = {}

C5_Witness ==
    /\ ~vtp.has_section_id
    /\ mainPc = "ValueError: section_id not found in VTP file"

\* ======================================================================
\* Properties of B32dAnbaStep (under SpecAnba)
\* ======================================================================
\* The sections whose anba.json the step can locate (the file is never moved).
Located == {s \in AnbaSections : FilePath(s, "anba.json") \in files}

AnbaPreconditions ==
    /\ Located # {}
    /\ anbaEnv.conda_found
    /\ anbaEnv.env_returncode = 0
    /\ anbaEnv.env_listed

SolverCallsFor(s) ==
    {k \in DOMAIN calls :
        /\ calls[k].cmd = "run anba4-run"
        /\ calls[k].i = <<FilePath(s, "anba.json")>>
        /\ calls[k].o = FilePath(s, "anba_solve.json")}

\* C6: when its preconditions hold, _execute makes exactly one
\* `conda env list` call and then exactly one solver subprocess per located
\* section_*/anba.json (that file as -i, the section's anba_solve.json as
\* -o), 1 + N invocations in all, and ends only after every launched run
\* has completed.
C6_OneSolverRunPerFile ==
    /\ \A k \in DOMAIN calls : (calls[k].cmd = "env list") <=> (k = 1)
    /\ \A s \in AnbaSections : Cardinality(SolverCallsFor(s)) <= 1
    /\ (AnbaPreconditions /\ anbaPc = "done") =>
        /\ Len(calls) = 1 + Cardinality(Located)
        /\ \A s \in Located : Cardinality(SolverCallsFor(s)) = 1
        /\ \A s \in Located : future[s].state = "collected"

\* The step has ended after running two sections, one of which failed.
C6_Witness ==
    /\ AnbaPreconditions
    /\ anbaPc = "done"
    /\ Cardinality(Located) = 2
    /\ Len(calls) = 3
    /\ \E s \in Located : run[s].returncode # 0

Finished(s) == future[s].state \in {"done", "collected"}

\* C7: for every solver run, passing or failing, run_anba_for_file writes
\* the section's anba_solve.log holding the run's stdout followed by its
\* stderr, and reports success exactly when the return code is 0; a failed
\* run is reported (and logged by the step) as failed.
C7_LogAndVerdictPerRun ==
    \A s \in AnbaSections :
        /\ Finished(s) =>
            /\ FilePath(s, "anba_solve.log") \in files
            /\ Len(logs[s]) = 1 + Len(run[s].stdout) + Len(run[s].stderr)
            /\ SubSeq(logs[s], 2, Len(logs[s])) = run[s].stdout \o run[s].stderr
            /\ future[s].success <=> (run[s].returncode = 0)
        /\ (future[s].state = "collected" /\ run[s].returncode # 0) =>
            /\ <<"error", "ANBA4 failed for", s>> \in stepLog
            /\ <<"info", "ANBA4 completed for", s>> \notin stepLog

\* A run that returned 0 while writing to stderr, and one that failed, have
\* both been reported.
C7_Witness ==
    \E s, u \in AnbaSections :
        /\ future[s].state = "collected"
        /\ run[s].returncode = 0 /\ run[s].stderr # <<>> /\ run[s].stdout # <<>>
        /\ future[u].state = "collected"
        /\ run[u].returncode # 0

\* ======================================================================
\* Properties of `anba all` (under SpecCli)
\* ======================================================================
SolverCalls == {k \in DOMAIN calls : calls[k].cmd = "run anba4-run"}

\* C8: `anba all` invokes the solver in a separate subprocess per located
\* section_*/anba.json: N located files give N solver invocations, each
\* with one input file.
C8_OneInvocationPerFile ==
    (cliPc = "done" /\ anbaEnv.conda_found /\ anbaEnv.env_listed) =>
        /\ Cardinality(SolverCalls) = Cardinality(Located)
        /\ \A k \in SolverCalls : Len(calls[k].i) = 1

\* ======================================================================
\* Properties of compute_bom (under SpecBom)
\* ======================================================================
RECURSIVE SumOver(_, _)
\* The sum of f[i] over the indices i of I.
SumOver(I, f) ==
    IF I = {} THEN 0
    ELSE LET i == CHOOSE x \in I : TRUE IN f[i] + SumOver(I \ {i}, f)

BomComputed ==
    /\ bomPc = "done"
    /\ {"Area", "material_id"} \subseteq bomMesh.fields

CellsOf(m) == {i \in DOMAIN bomMesh.material_id : bomMesh.material_id[i] = m}

\* C9: for a mesh with Area and material_id, total_area is the sum of Area
\* over all cells, areas_per_material has exactly one key per distinct
\* material id, its value the sum of Area over the cells of that material,
\* and the per-material areas sum to total_area.
C9_AreasPerMaterial ==
    BomComputed =>
        /\ bomResult.total_area = SumOver(DOMAIN bomMesh.Area, bomMesh.Area)
        /\ DOMAIN bomResult.areas_per_material = Range(bomMesh.material_id)
        /\ \A m \in DOMAIN bomResult.areas_per_material :
               bomResult.areas_per_material[m] = SumOver(CellsOf(m), bomMesh.Area)
        /\ SumOver(DOMAIN bomResult.areas_per_material, bomResult.areas_per_material)
               = bomResult.total_area

\* A mesh of two materials, the lower id on the last cell.
C9_Witness ==
    /\ BomComputed
    /\ Cardinality(DOMAIN bomResult.areas_per_material) = 2
    /\ bomMesh.material_id[Len(bomMesh.material_id)] = 1

BomWithMass == BomComputed /\ bomMatdb # <<>>

PyInt(m) == [type |-> "int", v |-> m]

\* C10 as stated: masses_per_material[m] = area(m) * rho for exactly those
\* materials m whose id equals, by exact value and type, the id of a matdb
\* entry that has rho; the others are omitted; total_mass is the sum.
C10_ExactIdMatch ==
    BomWithMass =>
        /\ DOMAIN bomResult.masses_per_material =
               {m \in DOMAIN bomResult.areas_per_material :
                   \E i \in DOMAIN bomMatdb :
                       /\ bomMatdb[i].has_id /\ bomMatdb[i].id = PyInt(m)
                       /\ bomMatdb[i].has_rho}
        /\ \A m \in DOMAIN bomResult.masses_per_material :
               \E i \in DOMAIN bomMatdb :
                   /\ bomMatdb[i].has_id /\ bomMatdb[i].id = PyInt(m)
                   /\ bomMatdb[i].has_rho
                   /\ bomResult.masses_per_material[m] =
                          bomResult.areas_per_material[m] * bomMatdb[i].rho
        /\ bomResult.total_mass =
               SumOver(DOMAIN bomResult.masses_per_material, bomResult.masses_per_material)

\* Entry i is the last entry of the matdb whose id equals m as a dict key.
LastWithId(i, m) ==
    /\ bomMatdb[i].has_id /\ KeyEq(m, bomMatdb[i].id)
    /\ \A k \in DOMAIN bomMatdb :
           (bomMatdb[k].has_id /\ KeyEq(m, bomMatdb[k].id)) => k <= i

\* C10 (amended): masses_per_material[m] = area(m) * rho for exactly those
\* materials m for which the last matdb entry whose id equals m as a Python
\* dict key (1.0 matches 1, '1' does not) has rho, rho being that entry's;
\* the others are omitted; total_mass is the sum (0 when none matches).
C10_DictKeyMatch ==
    BomWithMass =>
        /\ DOMAIN bomResult.masses_per_material =
               {m \in DOMAIN bomResult.areas_per_material :
                   \E i \in DOMAIN bomMatdb : LastWithId(i, m) /\ bomMatdb[i].has_rho}
        /\ \A m \in DOMAIN bomResult.masses_per_material :
               \E i \in DOMAIN bomMatdb :
                   /\ LastWithId(i, m)
                   /\ bomMatdb[i].id.type # "str"
                   /\ bomResult.masses_per_material[m] =
                          bomResult.areas_per_material[m] * bomMatdb[i].rho
        /\ bomResult.total_mass =
               SumOver(DOMAIN bomResult.masses_per_material, bomResult.masses_per_material)
        /\ (bomResult.masses_per_material = <<>> => bomResult.total_mass = 0)

\* One material gets its mass from the second of two entries with its id,
\* the other material is omitted.
C10_Witness ==
    /\ BomWithMass
    /\ Len(bomMatdb) = 2
    /\ bomMatdb[1].has_id /\ bomMatdb[2].has_id
    /\ KeyEq(1, bomMatdb[1].id) /\ KeyEq(1, bomMatdb[2].id)
    /\ bomMatdb[1].has_rho /\ bomMatdb[2].has_rho
    /\ bomMatdb[1].rho # bomMatdb[2].rho
    /\ DOMAIN bomResult.areas_per_material = {1, 2}
    /\ DOMAIN bomResult.masses_per_material = {1}

\* C11: compute_bom returns None exactly when the mesh lacks the Area field
\* or the material_id field, whatever the matdb, and a BOM dict (with
\* total_area and areas_per_material) in every other case.
C11_NoneIffFieldMissing ==
    bomPc = "done" =>
        /\ (bomResult = NoBom) <=> ~({"Area", "material_id"} \subseteq bomMesh.fields)
        /\ bomResult # NoBom =>
               {"total_area", "areas_per_material"} \subseteq DOMAIN bomResult

\* None for a mesh that has Area but no material_id, with a matdb given.
C11_Witness ==
    /\ bomPc = "done"
    /\ bomResult = NoBom
    /\ bomMesh.fields = {"Area"}
    /\ bomMesh.Area # <<>>
    /\ bomMatdb # <<>>

\* ======================================================================
\* Properties of the mesh step (under SpecStep)
\* ======================================================================
\* C12: with a matdb that gives densities, every bom.json the step writes
\* holds total_mass and masses_per_material besides the areas.
C12_BomJsonHasMass ==
    \A s \in StepSections :
        (stepMatdb # <<>> /\ bomJson[s] # NoBom) =>
            {"total_area", "areas_per_material", "total_mass", "masses_per_material"}
                \subseteq DOMAIN bomJson[s]

\* C13: for every mesh, the step's compute_bom(mesh) returns what
\* core.bom.compute_bom returns for it without a matdb, None included.
C13_BomImplementationsAgree ==
    stepBom = compute_bom(stepMesh, <<>>)

\* The step has computed the BOM of a mesh that has a cell.
C13_Witness ==
    /\ stepIdx > 0
    /\ stepBom # NoBom
    /\ stepMesh.material_id # <<>>
    /\ DOMAIN stepBom.areas_per_material = Range(stepMesh.material_id)

\* ======================================================================
\* Properties of the extraction (under SpecExtract)
\* ======================================================================
ExtractReturned == exPc = "returned"

InputPanelIds == {exSection.cells[i].panel_id : i \in DOMAIN exSection.cells}

NegativeIds == {pid \in InputPanelIds : pid < 0}

\* The negative ids other than the smallest one.
WebIds == IF NegativeIds = {} THEN {} ELSE NegativeIds \ {Min(NegativeIds)}

CountId(cells, pid) == Cardinality({i \in DOMAIN cells : cells[i].panel_id = pid})

\* C14: every cell has one role by its panel_id. The cells with id >= 0
\* all go to the airfoil, which besides them holds only cells of the
\* smallest negative id (the trailing edge), all of them or none; each
\* other negative id gives one web holding exactly its cells; the webs come
\* in descending id order; there is no web when the section has at most one
\* negative id.
C14_OneRolePerCell ==
    ExtractReturned =>
        /\ \A pid \in InputPanelIds :
              pid >= 0 => CountId(exOut.airfoil, pid) = CountId(exSection.cells, pid)
        /\ \A i \in DOMAIN exOut.airfoil :
              \/ exOut.airfoil[i].panel_id >= 0
              \/ /\ NegativeIds # {}
                 /\ exOut.airfoil[i].panel_id = Min(NegativeIds)
        /\ NegativeIds # {} =>
              CountId(exOut.airfoil, Min(NegativeIds))
                  \in {0, CountId(exSection.cells, Min(NegativeIds))}
        /\ Len(exOut.web_data) = Cardinality(WebIds)
        /\ \A k \in DOMAIN exOut.web_data :
              \E pid \in WebIds :
                 /\ \A i \in DOMAIN exOut.web_data[k].web :
                       exOut.web_data[k].web[i].panel_id = pid
                 /\ Len(exOut.web_data[k].web) = CountId(exSection.cells, pid)
                 /\ Len(exOut.web_data[k].points_2d) = Len(exOut.web_data[k].web)
        /\ \A k, j \in DOMAIN exOut.web_data :
              k < j => exOut.web_data[k].web[1].panel_id > exOut.web_data[j].web[1].panel_id
        /\ Cardinality(NegativeIds) <= 1 => exOut.web_data = <<>>

\* A section with skin, a trailing edge (-3) and two webs (-1 and -2).
C14_Witness ==
    /\ ExtractReturned
    /\ NegativeIds = {-1, -2, -3}
    /\ \E pid \in InputPanelIds : pid >= 0
    /\ Len(exOut.web_data) = 2
    /\ exOut.web_data[1].web[1].panel_id = -1
    /\ exOut.web_data[2].web[1].panel_id = -2
    /\ exOut.airfoil # <<>>

\* A point of the input with the offset removed and the twist undone.
Undo(p) == RotateZ(<<p[1] - exSection.dx, p[2] - exSection.dy>>, 0 - exSection.twist)

\* C15: every returned 2D point, of the airfoil and of every web, is a
\* point of the input cells of the same panel_id with (dx, dy) subtracted
\* and the twist rotation undone.
C15_OffsetAndTwistUndone ==
    ExtractReturned =>
        /\ \A i \in DOMAIN exOut.points_2d :
              \E j \in DOMAIN exSection.cells :
                 /\ exSection.cells[j].panel_id = exOut.airfoil[i].panel_id
                 /\ exOut.points_2d[i] = Undo(exSection.cells[j].p)
        /\ \A k \in DOMAIN exOut.web_data :
              \A i \in DOMAIN exOut.web_data[k].points_2d :
                 \E j \in DOMAIN exSection.cells :
                    /\ exSection.cells[j].panel_id = exOut.web_data[k].web[i].panel_id
                    /\ exOut.web_data[k].points_2d[i] = Undo(exSection.cells[j].p)

\* ======================================================================
\* Properties of sort_points_by_y (under SpecSort)
\* ======================================================================
\* The one-to-one maps of the point positions onto themselves.
PointPermutations ==
    {f \in [DOMAIN sortMesh.points -> DOMAIN sortMesh.points] :
        \A a, b \in DOMAIN sortMesh.points : f[a] = f[b] => a = b}

\* C16: the result has the same points, permuted into non-decreasing y
\* order, the point data permuted the same way, and in every cell each
\* vertex index refers to the coordinates it referred to before the sort.
C16_SortIsRelabelling ==
    sortPc = "done" =>
        /\ Len(sortOut.points) = Len(sortMesh.points)
        /\ \E f \in PointPermutations :
              \A k \in DOMAIN sortOut.points :
                 /\ sortOut.points[k] = sortMesh.points[f[k]]
                 /\ sortOut.w[k] = sortMesh.w[f[k]]
        /\ \A k \in DOMAIN sortOut.points :
              k > 1 => sortOut.points[k - 1][2] <= sortOut.points[k][2]
        /\ Len(sortOut.cells) = Len(sortMesh.cells)
        /\ \A i \in DOMAIN sortOut.cells :
              IF (i - 1) % 4 = 0
              THEN sortOut.cells[i] = sortMesh.cells[i]
              ELSE sortOut.points[sortOut.cells[i] + 1]
                       = sortMesh.points[sortMesh.cells[i] + 1]

\* Three points whose sort is a cyclic shift, with a triangle on them.
C16_Witness ==
    /\ sortPc = "done"
    /\ Len(sortMesh.points) = 3
    /\ sortMesh.cells # <<>>
    /\ sortOut.points[1] = sortMesh.points[3]
    /\ sortOut.points[2] = sortMesh.points[1]
    /\ sortOut.points[1] # sortOut.points[2]
    /\ sortOut.points[2] # sortOut.points[3]
    /\ sortOut.cells # sortMesh.cells

\* ======================================================================
\* Properties of validate_points (under SpecValid)
\* ======================================================================
\* A list or tuple of exactly two numbers.
IsPoint(p) ==
    /\ p.type \in {"list", "tuple"}
    /\ Len(p.items) = 2
    /\ \A c \in 1..2 : p.items[c].type \in {"int", "float"}

\* C17: validate_points returns True exactly when its argument is a list
\* whose every element is a list or tuple of exactly two numbers, and False
\* for every other argument; the call always returns.
C17_TrueIffListOfPairs ==
    /\ valPc \in {"off", "input", "done"}
    /\ valPc = "done" =>
          /\ valOut \in BOOLEAN
          /\ valOut <=> (/\ valArg.type = "list"
                         /\ \A i \in DOMAIN valArg.items : IsPoint(valArg.items[i]))

\* False for a list whose second element has three numbers.
C17_Witness ==
    /\ valPc = "done"
    /\ valOut = FALSE
    /\ valArg.type = "list"
    /\ Len(valArg.items) = 2
    /\ IsPoint(valArg.items[1])
    /\ Len(valArg.items[2].items) = 3
    /\ \A c \in 1..3 : valArg.items[2].items[c].type \in {"int", "float"}

\* ======================================================================
\* Properties of the post step (under SpecPost)
\* ======================================================================
\* C18: when a section has valid ANBA result data, the file given to
\* plot_span_anba, b3_2d/anba_spanwise.png, exists after the step and the
\* step has logged the plot as saved.
C18_AnbaPlotWritten ==
    (postPc = "done" /\ \E s \in PostSections : postAnba[s] \in {"centers", "full"}) =>
        /\ PngFile("anba_spanwise") \in postFiles
        /\ <<"info", "ANBA plot saved to", PngFile("anba_spanwise")>> \in postLog

\* ======================================================================
\* Properties of the CLI application (under SpecApp)
\* ======================================================================
\* C19: the application has exactly the top-level commands mesh, plot and
\* span, and exactly the subgroup anba.
C19_ThreeCommandsOneSubgroup ==
    appPc # "import" =>
        /\ Len(app.commands) = 3
        /\ {app.commands[i].name : i \in DOMAIN app.commands} = {"mesh", "plot", "span"}
        /\ Len(app.subgroups) = 1
        /\ {app.subgroups[i].name : i \in DOMAIN app.subgroups} = {"anba"}

\* ======================================================================
\* Properties of the parallel section jobs (under SpecMesh)
\* ======================================================================
\* The call of process_single_section for a section has been entered.
Entered(j) == j.pc \notin {"idle", "queued"}

\* C20: jobs never write the same file. A step that adds or removes a file
\* in section_<s>/, or that directory, is a step of the job of section s
\* (a step that leaves that job as it was leaves them as they were); no
\* step moves two jobs that have been entered; every file lies in the
\* directory of a section whose job has been entered; and distinct section
\* ids have distinct directories.
C20_JobsKeepToOwnDirectory ==
    [][/\ \A f \in (files \ files') \cup (files' \ files) :
             f[2] \in SectionIds /\ job'[f[2]] # job[f[2]]
       /\ \A d \in (dirs \ dirs') \cup (dirs' \ dirs) :
             d[2] \in SectionIds /\ job'[d[2]] # job[d[2]]
       /\ \A s, t \in SectionIds :
             (s # t /\ Entered(job'[s]) /\ Entered(job'[t]))
                 => (job'[s] = job[s] \/ job'[t] = job[t])
      ]_vars
    /\ [](/\ \A f \in files :
                /\ f[1] = "section_" /\ f[2] \in SectionIds
                /\ Entered(job[f[2]])
                /\ <<f[1], f[2]>> = SectionDir(f[2])
          /\ \A s, t \in SectionIds : s # t => SectionDir(s) # SectionDir(t))

\* Two jobs are under way at once, each with files in its own directory.
C20_Witness ==
    \E s, t \in SectionIds :
        /\ s # t
        /\ Entered(job[s]) /\ job[s].pc \notin {"returned", "raised"}
        /\ Entered(job[t]) /\ job[t].pc \notin {"returned", "raised"}
        /\ \E f \in files : f[2] = s
        /\ \E f \in files : f[2] = t


\* ------------------------------------------- Properties of the collected
\* results of the ANBA step (under SpecAnba)

\* The sections whose solver result lies in anba4_results/.
Kept == {anba4_results[n] : n \in {m \in DOMAIN anba4_results : m = "anba_solve.json"}}

\* C21: no two sections' result files are moved to the same path of
\* anba4_results/: once the step has ended with every run successful, the
\* directory holds the solver result of every section that was run, none of
\* them overwritten by another section's.
C21_NoResultOverwritten ==
    (/\ anbaPc = "done"
     /\ \A s \in Range(anba_files) : future[s].success)
        => Range(anba_files) \subseteq Kept

\* The file names the mesh step leaves in a section directory.
MeshStepNames == {"2dmesh.log", "output.vtk", "anba.json", "bom.json"}

\* C22: a solver run takes out of the section directory only what that run
\* produced: no file the mesh step left there (anba.json, bom.json,
\* output.vtk, the log) is ever moved to anba4_results/, whether the run
\* succeeds or fails, and the outputs of every located section stay in place.
C22_MeshFilesStay ==
    /\ \A n \in DOMAIN anba4_results : n \notin MeshStepNames
    /\ \A s \in Located : MeshOutputs(s) \subseteq files

\* ------------------------------------------- Properties of the steps run
\* in order (under SpecPipeline)

\* C23: with the steps run in the order mesh, ANBA, post, for every section
\* whose ANBA run succeeded plot_span_anba finds that section's solver
\* result under the section directory and includes it in the spanwise plot.
C23_SolvedSectionsPlotted ==
    postPc = "done" =>
        \A s \in Range(anba_files) :
            future[s].success =>
                /\ postAnba[s] \in {"centers", "full"}
                /\ ReplacePng(PngFile("anba_spanwise"), "_centers.png") \in postFiles

\* ------------------------------------------- Properties of the checks the
\* ANBA step makes before it runs anything (under SpecAnba)

Launched == \E k \in DOMAIN calls : calls[k].cmd = "run anba4-run"

EnvListed == \E k \in DOMAIN calls : calls[k].cmd = "env list"

\* The message of the first check that fails.
FirstError ==
    IF Located = {} THEN <<"error", "No anba.json files found in b3_2d/">>
    ELSE IF ~anbaEnv.conda_found
    THEN <<"error", "Conda not found - please install conda">>
    ELSE <<"error", "Conda environment not found - please create it">>

HasResult(j) == j.pc \notin {"idle", "queued", "makedirs"}

IsPrefix(a, b) == Len(a) <= Len(b) /\ SubSeq(b, 1, Len(a)) = a

FailedReturn(j) == j.pc = "returned" /\ ~j.result.success

\* C24: a failure is not compensated. No step takes a file away except the
\* removal of mesh.pck by a job whose export has written anba.json, no step
\* shortens a job's created_files, and a job that returns a failure leaves
\* the files it recorded on disk.
C24_NoCompensation ==
    [][/\ \A f \in files \ files' :
             /\ f[3] = "mesh.pck"
             /\ job[f[2]].pc = "remove"
             /\ FilePath(f[2], "anba.json") \in files
             /\ job'[f[2]].pc = "returned" /\ job'[f[2]].result.success
       /\ \A s \in SectionIds :
             HasResult(job[s]) =>
                IsPrefix(job[s].result.created_files, job'[s].result.created_files)
       /\ \A s \in SectionIds :
             FailedReturn(job'[s]) =>
                \A i \in DOMAIN job'[s].result.created_files :
                    job'[s].result.created_files[i] \in files'
      ]_vars

\* A job has failed at the export: its log, output.vtk and mesh.pck are on
\* disk, anba.json is not, and created_files lists the log and output.vtk.
C24_Witness ==
    \E s \in SectionIds :
        /\ FailedReturn(job[s])
        /\ job[s].result.created_files = <<FilePath(s, "2dmesh.log"), FilePath(s, "output.vtk")>>
        /\ {FilePath(s, "2dmesh.log"), FilePath(s, "output.vtk"), FilePath(s, "mesh.pck")}
               \subseteq files
        /\ FilePath(s, "anba.json") \notin files

\* C25: generate_mesh is called only for a section whose airfoil gave at
\* least 10 valid points and at least one ply-thickness field: a job at the
\* call holds both, and no job has called it without. A job that returns
\* without having called it (as every job without both does) returns
\* success = False with exactly one error, created_files listing 2dmesh.log
\* only, and none of output.vtk, mesh.pck and anba.json written.
C25_MeshOnlyIfQualified ==
    \A s \in SectionIds :
        /\ ~job[s].called_unqualified
        /\ job[s].pc = "mesh" => (job[s].enough_points /\ job[s].thickness_found)
        /\ (job[s].pc = "returned" /\ ~job[s].generate_mesh_called) =>
            /\ ~job[s].result.success
            /\ Len(job[s].result.errors) = 1
            /\ job[s].result.created_files = <<FilePath(s, "2dmesh.log")>>
            /\ \A n \in {"output.vtk", "mesh.pck", "anba.json"} :
                   FilePath(s, n) \notin files

\* One job was turned away for want of a thickness field after its points
\* had passed, another went on to generate_mesh.
C25_Witness ==
    \E s, v \in SectionIds :
        /\ job[s].pc = "returned" /\ job[s].result.errors = <<"No thicknesses">>
        /\ job[v].generate_mesh_called
        /\ job[v].enough_points /\ job[v].thickness_found

\* C26: in every result process_single_section returns, and in every result
\* the pool hands back, success is True exactly when errors is empty.
C26_SuccessIffNoErrors ==
    /\ \A s \in SectionIds :
          job[s].pc = "returned" =>
              (job[s].result.success <=> job[s].result.errors = <<>>)
    /\ \A i \in DOMAIN mapValue :
          mapValue[i] \notin {NoResult, Raised} =>
              (mapValue[i].success <=> mapValue[i].errors = <<>>)

\* One job has returned a success without errors, another a failure with one.
C26_Witness ==
    \E s, u \in SectionIds :
        /\ job[s].pc = "returned" /\ job[u].pc = "returned"
        /\ job[s].result.success /\ job[s].result.errors = <<>>
        /\ ~job[u].result.success /\ job[u].result.errors # <<>>

\* ------------------------------------------- Properties of the logging
\* state (under SpecLog)

\* C28: on every return path process_single_section has detached the
\* section's handler and put the root level back, every 2dmesh.log holds
\* only messages of its own section, and the logging configuration after
\* the call equals the one before it.
C28_LoggingRestored ==
    /\ logCall.pc = "returned" =>
        /\ logCall.section \notin logCfg.handlers
        /\ logCfg.root_level = logBefore.root_level
        /\ logCfg = logBefore
    /\ \A h \in LogSections : logLines[h] \subseteq {h}

\* ------------------------------------------- Properties of the skins
\* (under SpecSkin)

\* C29: skins are built one per ply-thickness field of the airfoil, in the
\* order of the integer ply number, named skin1..skinK with sort_index the
\* rank and the material of the matching material field; and every selected
\* thickness field has a ply number that can be parsed and a matching
\* material field.
C29_SkinsPerPlyField ==
    skinPc = "done" =>
        LET selected == SelectSeq(skinMesh, IsThicknessKey)
            names == {FieldName(skinMesh[i]) : i \in DOMAIN skinMesh}
            skins == skinOut.skins
        IN /\ \A i \in DOMAIN selected :
                 /\ HasPlyNumber(selected[i])
                 /\ MaterialName(selected[i]) \in names
           /\ skinOut.raised = "none"
           /\ Len(skins) = Len(selected)
           /\ {skins[i].thickness : i \in DOMAIN skins}
                  = {FieldName(selected[i]) : i \in DOMAIN selected}
           /\ \A i \in DOMAIN skins :
                 /\ skins[i].name = <<"skin", i>>
                 /\ skins[i].sort_index = i
                 /\ skins[i].material = <<skins[i].thickness[1], "material">>
           /\ \A i, j \in DOMAIN skins :
                 i < j => PlyNumber([ply |-> skins[i].thickness[1]])
                              <= PlyNumber([ply |-> skins[j].thickness[1]])

\* ------------------------------------------- Properties of the BOM plot
\* (under SpecPlot)

\* The ids of the sections whose bom.json has both required keys.
ValidIds == {plotFiles[i].id : i \in {j \in DOMAIN plotFiles : plotFiles[j].kind = "valid"}}

\* C30: plot_bom_spanwise does not raise; it writes output_file exactly when
\* some section_*/bom.json has total_area and areas_per_material, and
\* writes nothing when none has; and it plots the valid sections in
\* ascending order of the section id read back from the directory name the
\* mesh step wrote.
C30_BomPlotWritten ==
    plotPc = "done" =>
        /\ plotOut.raised = "none"
        /\ (PngFile("bom_spanwise") \in plotOut.written) <=> (ValidIds # {})
        /\ plotOut.written \subseteq {PngFile("bom_spanwise")}
        /\ Range(plotOut.z_vals) = ValidIds
        /\ \A i, j \in DOMAIN plotOut.z_vals :
              i < j => plotOut.z_vals[i] < plotOut.z_vals[j]

====
